---- MODULE Spec2Model ----
(***************************************************************************)
(* Model of the corpora batch orchestrator (batch/processor.py), its       *)
(* manifest store (output/manifest.py), the merge engine                   *)
(* (output/merger.py), the consolidator (output/consolidator.py), the IP    *)
(* detector (ip/detector.py), the exit code of a batch summary             *)
(* (batch/models.py) and the worker pool of a batch run.                   *)
(***************************************************************************)
EXTENDS Integers, Sequences, FiniteSets, TLC

----------------------------------------------------------------------------
(* Bounds of the model *)

\* number of documents discover_documents() finds (sorted, so 1..NDocs)
NDocs == 2
\* config.max_workers and os.cpu_count()
ConfigWorkers == 2
CpuCount == 2
\* calls of consolidate_vocabularies that are explored
MaxCalls == 3
\* seconds of the clock that names the timestamped backups
MaxStamp == 2

Docs == 1..NDocs
\* content hashes a source file can have (compute_file_hash): that of the
\* content it has at first and that of its content after an edit
Hashes == {"h1", "h2"}
NoEntry == "none"
\* messages of the exceptions a pipeline can raise
Errors == {"e1", "e2"}
\* the message explored for the n-th call of the pipeline on a document
ErrorsOf(n) == IF n = 1 THEN {"e1"} ELSE {"e2"}

----------------------------------------------------------------------------
VARIABLES
    fileHash,      \* [Docs -> Hashes]: compute_file_hash of each source file
    diskState,     \* the manifest file: "absent", "truncated" or "complete"
    diskDocs,      \* [Docs -> Hashes \cup {NoEntry}]: "documents" of a complete file
    manifest,      \* self.manifest.documents (source_hash per key), in memory
    force,         \* config.force_reprocess
    pc,            \* "stopped", "loadfail", "scan", "pool", "done", "aborted"
    scanPos,       \* position of the loop of process() over documents
    toProcess,     \* to_process
    phase,         \* [Docs -> phase of the document in this run]
    attempts,      \* [Docs -> Seq of the results of _process_single_document]
    future,        \* [Docs -> outcome of the future of _process_with_retry]
    result,        \* [Docs -> the variable result of the as_completed loop body]
    yields,        \* [Docs -> number of results process() has yielded for it]
    loaded,        \* the documents mapping CorporaManifest.load returned
    durable,       \* documents whose update_entry + save cycle has completed
    interruption,  \* how the previous run ended: "none" (no run, or it returned),
                   \* interrupted "outside_save" or "in_save"
    \* consolidator.py
    files,         \* [Paths -> content of master_path, <master>.bak, the .tmp sibling]
    stamped,       \* [Stamps -> content of the backup with that timestamp]
    now,           \* datetime.now() at the resolution of the timestamp (seconds)
    cpc,           \* position inside consolidate_vocabularies / backup_and_write
    content,       \* the argument content of backup_and_write
    before,        \* the content of master_path when the call began
    backup_path,   \* the local backup_path: 0 (None) or the timestamp of the backup
    calls,         \* calls of consolidate_vocabularies so far
    successes,     \* calls of consolidate_vocabularies that returned
    \* merger.py
    mergeEntries,  \* the argument entries of merge_duplicates
    merged,        \* what merge_duplicates returned for it, or NoMerge
    \* consolidator.py, consolidate_vocabularies
    vocab_files,   \* the entries of each file of vocab_files
    blocklist,     \* the argument blocklist: not given, or the loaded IPBlocklist
    master,        \* the file at master_path: whether it exists, and its "entries"
    existing_entries, \* the local existing_entries of the last call
    summary,       \* the ConsolidationSummary the last call returned, or NoSummary
    \* manifest.py, the operations of CorporaManifest
    documents,     \* self.documents in insertion order: key, source_hash, vocab_path
    sourceFiles,   \* [StoreKeys -> the bytes of the source file]
    recorded,      \* [StoreKeys -> the bytes the file had at its last update_entry]
    answer,        \* the last needs_processing call: its argument and what it returned
    orphans,       \* the last get_orphaned_vocabs call: its argument and what it returned
    \* processor.py, one call of _process_single_document
    stage,         \* the statement the call is at: "idle", a stage of the try, "returned"
    suffix,        \* source.suffix.lower()
    blocklist_path, \* whether config.blocklist_path is set and exists
    full_text,     \* whether full_text.strip() is non-empty
    candidates,    \* len(candidates)
    termPos,       \* position of the loop over candidates
    classified_terms, \* classified_terms: the positions of the terms in it
    failedTerms,   \* the positions of the terms whose classify_term raised
    raisedIn,      \* the stage whose exception the except clause caught, or "none"
    docResult,     \* the DocumentResult the call returned
    \* batch/models.py, BatchSummary
    batch_summary, \* the fields of a BatchSummary that get_exit_code reads
    exit_code,     \* what get_exit_code returned for it: <<>> before the call
    \* ip/detector.py
    ipTerms,       \* the argument terms of flag_terms
    ipBlocklist,   \* the argument blocklist of detect_ip and flag_terms
    ip_results,    \* ip_result of each term, once flag_terms has run
    flagged_terms, \* what flag_terms returned for ipTerms
    reflagged_terms, \* what flag_terms returned for flagged_terms
    \* processor.py, the ThreadPoolExecutor of process()
    max_workers,   \* config.max_workers as the caller asked for it
    cpu_count,     \* os.cpu_count(); 0 for None
    poolPc,        \* "none", "rejected", "configured", "open" or "closed"
    taskPhase,     \* [Tasks -> "none", "queued", "first", "second", "done"]
    firstThread,   \* [Tasks -> the thread that ran the first attempt, while it runs]
    taskThread     \* [Tasks -> the thread its _process_with_retry runs on, or 0]

fileVars == <<fileHash>>
diskVars == <<diskState, diskDocs>>
workVars == <<attempts, future>>
batchVars == <<fileHash, diskState, diskDocs, manifest, force, pc, scanPos,
               toProcess, phase, attempts, future, result, yields, loaded,
               durable, interruption>>

consVars == <<files, stamped, now, cpc, content, before, backup_path, calls,
              successes>>

mergeVars == <<mergeEntries, merged>>

\* the state of the components that neither the orchestrator nor
\* backup_and_write touches
vocabVars == <<vocab_files, blocklist, master, existing_entries, summary>>

storeVars == <<documents, sourceFiles, recorded, answer, orphans>>

pipeVars == <<stage, suffix, blocklist_path, full_text, candidates, termPos,
              classified_terms, failedTerms, raisedIn, docResult>>

exitVars == <<batch_summary, exit_code>>

ipVars == <<ipTerms, ipBlocklist, ip_results, flagged_terms, reflagged_terms>>

poolVars == <<max_workers, cpu_count, poolPc, taskPhase, firstThread, taskThread>>

toolVars == <<exitVars, ipVars, poolVars>>

libVars == <<mergeVars, vocabVars, storeVars, pipeVars, toolVars>>

vars == <<batchVars, consVars, libVars>>

----------------------------------------------------------------------------
(* Values *)

NoResult == [status |-> "NONE", vocab |-> FALSE, error |-> ""]
\* DocumentResult(status=SUCCESS, vocab_path=vocab_path): the vocabulary was written
SuccessVocab == [status |-> "SUCCESS", vocab |-> TRUE, error |-> ""]
\* DocumentResult(status=SUCCESS, term_count=0): no text or no candidates
SuccessEmpty == [status |-> "SUCCESS", vocab |-> FALSE, error |-> ""]
Failed(e) == [status |-> "FAILED", vocab |-> FALSE, error |-> e]
\* an exception that left the call instead of a returned DocumentResult
Raised(e) == [status |-> "RAISED", vocab |-> FALSE, error |-> e]
Skipped == [status |-> "SKIPPED", vocab |-> FALSE, error |-> ""]

EmptyManifest == [d \in Docs |-> NoEntry]

\* phases in which the consumer thread holds a document inside the loop body
\* of process(): after update_entry, inside save, before the yield
MainPhases == {"updated", "saving", "ready"}
\* the update_entry + save cycle
CyclePhases == {"updated", "saving"}

----------------------------------------------------------------------------
(* manifest.py *)

\* needs_processing(source_path): no entry under str(source_path), or the
\* hash of the file now differs from the stored source_hash
NeedsProcessing_IgnoreHash(m, d) == m[d] = NoEntry

NeedsProcessing_Inverted(m, d) ==
    \/ m[d] = NoEntry
    \/ fileHash[d] = m[d]

NeedsProcessing(m, d) ==
    \/ m[d] = NoEntry
    \/ fileHash[d] # m[d]

\* update_entry(source, vocab, term_count): documents[key] = ManifestEntry(...)
UpdateEntry(m, d) == [m EXCEPT ![d] = fileHash[d]]

\* CorporaManifest.load: <<ok, documents>>
Load_Empty(state, docs) == <<TRUE, EmptyManifest>>

Load_CorruptAsEmpty(state, docs) ==
    IF state = "complete" THEN <<TRUE, docs>> ELSE <<TRUE, EmptyManifest>>

Load(state, docs) ==
    IF state = "absent" THEN <<TRUE, EmptyManifest>>
    ELSE IF state = "truncated" THEN <<FALSE, EmptyManifest>>
    ELSE <<TRUE, docs>>

----------------------------------------------------------------------------
(* processor.py *)

PoolSize == IF ConfigWorkers < CpuCount THEN ConfigWorkers ELSE CpuCount

\* the except clause of _process_single_document
PipelineException(e) == Failed(e)

\* the condition of _process_with_retry that starts the second attempt
RetryNeeded_Never(log) == FALSE

RetryNeeded(log) == Len(log) = 1 /\ log[1].status = "FAILED"

\* future.result() inside try/except of process()
FutureResult_NoCatch(f) == f

FutureResult(f) == IF f.status = "RAISED" THEN Failed(f.error) ELSE f

\* a process() that records every result it takes from the pool
ShouldUpdate_Always(r) == TRUE

\* the condition under which process() updates and saves the manifest
ShouldUpdate(r) == r.status = "SUCCESS" /\ r.vocab

\* the body of the as_completed loop runs on the one thread that consumes
\* process(): it takes the next future only when the previous body has yielded
MainThreadFree_Always == TRUE

MainThreadFree == \A d \in Docs : phase[d] \notin MainPhases

Running == {d \in Docs : phase[d] = "running"}

\* the branch of the scan loop that appends to to_process
Selected(d) == force \/ NeedsProcessing(manifest, d)

\* a process() that opens the pool once the first document is checked
ScanComplete_Early == scanPos > 1

\* "for doc in documents" is exhausted: the statements after the loop run
ScanComplete == scanPos > NDocs

----------------------------------------------------------------------------
(* Initial state: the source files exist, no manifest file, no processor *)

BatchInit ==
    /\ fileHash = [d \in Docs |-> "h1"]
    /\ diskState = "absent"
    /\ diskDocs = EmptyManifest
    /\ manifest = EmptyManifest
    /\ force = FALSE
    /\ pc = "stopped"
    /\ scanPos = 1
    /\ toProcess = {}
    /\ phase = [d \in Docs |-> "none"]
    /\ attempts = [d \in Docs |-> <<>>]
    /\ future = [d \in Docs |-> NoResult]
    /\ result = [d \in Docs |-> NoResult]
    /\ yields = [d \in Docs |-> 0]
    /\ loaded = EmptyManifest
    /\ durable = {}
    /\ interruption = "none"

\* the state of process() before its first statement
FreshRun ==
    /\ scanPos' = 1
    /\ toProcess' = {}
    /\ phase' = [d \in Docs |-> "none"]
    /\ attempts' = [d \in Docs |-> <<>>]
    /\ future' = [d \in Docs |-> NoResult]
    /\ result' = [d \in Docs |-> NoResult]
    /\ yields' = [d \in Docs |-> 0]

Idle == pc = "stopped"

\* a source file is edited between two runs; only whether a stored hash equals
\* the hash of the file matters, so one edit per file (to the other hash) is explored
ModifyFile(d, h) ==
    /\ Idle
    /\ fileHash[d] = "h1"
    /\ h # fileHash[d]
    /\ fileHash' = [fileHash EXCEPT ![d] = h]
    /\ UNCHANGED <<consVars, libVars, diskVars, manifest, force, pc, scanPos, toProcess, phase,
                   workVars, result, yields, loaded, durable,
                   interruption>>

\* BatchProcessor.__init__ followed by the call of process()
Construct(f) ==
    /\ Idle
    /\ LET l == Load(diskState, diskDocs) IN
        IF l[1]
        THEN /\ pc' = "scan"
             /\ manifest' = l[2]
             /\ loaded' = l[2]
             /\ force' = f
        ELSE /\ pc' = "loadfail"
             /\ manifest' = EmptyManifest
             /\ loaded' = EmptyManifest
             /\ force' = FALSE
    /\ FreshRun
    /\ UNCHANGED <<consVars, libVars, fileVars, diskVars, durable, interruption>>

\* the process is killed while process() runs: what is in memory is gone
Interrupt ==
    /\ pc \in {"scan", "pool"}
    /\ pc' = "stopped"
    /\ interruption' = IF \E d \in Docs : phase[d] = "saving"
                       THEN "in_save" ELSE "outside_save"
    /\ manifest' = EmptyManifest
    /\ loaded' = EmptyManifest
    /\ force' = FALSE
    /\ FreshRun
    /\ UNCHANGED <<consVars, libVars, fileVars, diskVars, durable>>

\* process() has returned (or raised) and the process exits
Exit ==
    /\ pc \in {"done", "aborted"}
    /\ pc' = "stopped"
    /\ manifest' = EmptyManifest
    /\ loaded' = EmptyManifest
    /\ force' = FALSE
    /\ interruption' = "none"
    /\ FreshRun
    /\ UNCHANGED <<consVars, libVars, fileVars, diskVars, durable>>

\* the operator removes a manifest file that load rejects
DeleteManifest ==
    /\ pc = "loadfail"
    /\ pc' = "stopped"
    /\ diskState' = "absent"
    /\ diskDocs' = EmptyManifest
    /\ durable' = {}
    /\ interruption' = "none"
    /\ UNCHANGED <<consVars, libVars, fileVars, manifest, force, scanPos, toProcess, phase,
                   workVars, result, yields, loaded>>

\* one iteration of "for doc in documents" of process()
ScanStep ==
    /\ pc = "scan"
    /\ scanPos <= NDocs
    /\ LET d == scanPos IN
        IF Selected(d)
        THEN /\ toProcess' = toProcess \cup {d}
             /\ UNCHANGED <<phase, result, yields>>
        ELSE /\ phase' = [phase EXCEPT ![d] = "skipped"]
             /\ result' = [result EXCEPT ![d] = Skipped]
             /\ yields' = [yields EXCEPT ![d] = @ + 1]
             /\ UNCHANGED toProcess
    /\ scanPos' = scanPos + 1
    /\ UNCHANGED <<consVars, libVars, fileVars, diskVars, manifest, force, pc, workVars,
                   loaded, durable, interruption>>

\* "if not to_process: return", else every document is submitted to the pool
ScanEnd ==
    /\ pc = "scan"
    /\ ScanComplete
    /\ IF toProcess = {}
       THEN /\ pc' = "done"
            /\ UNCHANGED phase
       ELSE /\ pc' = "pool"
            /\ phase' = [d \in Docs |-> IF d \in toProcess THEN "queued" ELSE phase[d]]
    /\ UNCHANGED <<consVars, libVars, fileVars, diskVars, manifest, force, scanPos, toProcess,
                   workVars, result, yields, loaded, durable,
                   interruption>>

\* a worker takes a document and enters _process_with_retry
StartAttempt(d) ==
    /\ pc = "pool"
    /\ phase[d] = "queued"
    /\ Cardinality(Running) < PoolSize
    /\ phase' = [phase EXCEPT ![d] = "running"]
    /\ UNCHANGED <<consVars, libVars, fileVars, diskVars, manifest, force, pc, scanPos, toProcess,
                   workVars, result, yields, loaded, durable,
                   interruption>>

\* the imports at the head of _process_single_document, outside its try, raise
\* in the first call: the exception leaves _process_with_retry
ImportFails(d) ==
    /\ pc = "pool"
    /\ phase[d] = "running"
    /\ attempts[d] = <<>>
    /\ phase' = [phase EXCEPT ![d] = "finished"]
    /\ future' = [future EXCEPT ![d] = Raised("e1")]
    /\ UNCHANGED <<consVars, libVars, fileVars, diskVars, manifest, force, pc, scanPos, toProcess,
                   attempts, result, yields, loaded, durable,
                   interruption>>

\* one call of _process_single_document returns r; _process_with_retry either
\* calls it again on the same worker or returns r
AttemptReturns(d, r) ==
    /\ pc = "pool"
    /\ phase[d] = "running"
    /\ LET log == Append(attempts[d], r) IN
        /\ attempts' = [attempts EXCEPT ![d] = log]
        /\ IF RetryNeeded(log)
           THEN UNCHANGED <<phase, future>>
           ELSE /\ phase' = [phase EXCEPT ![d] = "finished"]
                /\ future' = [future EXCEPT ![d] = r]
    /\ UNCHANGED <<consVars, libVars, fileVars, diskVars, manifest, force, pc, scanPos, toProcess,
                   result, yields, loaded, durable, interruption>>

EndAttempt(d) ==
    \/ AttemptReturns(d, SuccessVocab)
    \/ AttemptReturns(d, SuccessEmpty)
    \/ \E e \in ErrorsOf(Len(attempts[d]) + 1) : AttemptReturns(d, PipelineException(e))

\* as_completed hands over a finished future; future.result(); update_entry
TakeCompleted(d) ==
    /\ pc = "pool"
    /\ MainThreadFree
    /\ phase[d] = "finished"
    /\ LET r == FutureResult(future[d]) IN
        IF r.status = "RAISED"
        THEN \* an exception nobody catches leaves the generator
             /\ pc' = "aborted"
             /\ UNCHANGED <<manifest, phase, result>>
        ELSE /\ result' = [result EXCEPT ![d] = r]
             /\ pc' = pc
             /\ IF ShouldUpdate(r)
                THEN /\ manifest' = UpdateEntry(manifest, d)
                     /\ phase' = [phase EXCEPT ![d] = "updated"]
                ELSE /\ manifest' = manifest
                     /\ phase' = [phase EXCEPT ![d] = "ready"]
    /\ UNCHANGED <<consVars, libVars, fileVars, diskVars, force, scanPos, toProcess, workVars,
                   yields, loaded, durable, interruption>>

\* CorporaManifest.save: open(path, "w") truncates the file
SaveOpen(d) ==
    /\ pc = "pool"
    /\ phase[d] = "updated"
    /\ phase' = [phase EXCEPT ![d] = "saving"]
    /\ diskState' = "truncated"
    /\ diskDocs' = EmptyManifest
    /\ UNCHANGED <<consVars, libVars, fileVars, manifest, force, pc, scanPos, toProcess, workVars,
                   result, yields, loaded, durable, interruption>>

\* CorporaManifest.save: the dump is written and the file closed
SaveClose(d) ==
    /\ pc = "pool"
    /\ phase[d] = "saving"
    /\ phase' = [phase EXCEPT ![d] = "ready"]
    /\ diskState' = "complete"
    /\ diskDocs' = manifest
    /\ durable' = durable \cup {d}
    /\ UNCHANGED <<consVars, libVars, fileVars, manifest, force, pc, scanPos, toProcess, workVars,
                   result, yields, loaded, interruption>>

\* on_document_complete and "yield result"
Yield(d) ==
    /\ pc = "pool"
    /\ phase[d] = "ready"
    /\ phase' = [phase EXCEPT ![d] = "yielded"]
    /\ yields' = [yields EXCEPT ![d] = @ + 1]
    /\ UNCHANGED <<consVars, libVars, fileVars, diskVars, manifest, force, pc, scanPos, toProcess,
                   workVars, result, loaded, durable, interruption>>

\* as_completed is exhausted, the executor shuts down, process() returns
Finish ==
    /\ pc = "pool"
    /\ \A d \in toProcess : phase[d] = "yielded"
    /\ pc' = "done"
    /\ UNCHANGED <<consVars, libVars, fileVars, diskVars, manifest, force, scanPos, toProcess,
                   phase, workVars, result, yields, loaded, durable,
                   interruption>>

RunStep ==
    \/ ScanStep
    \/ ScanEnd
    \/ \E d \in Docs : StartAttempt(d)
    \/ \E d \in Docs : ImportFails(d)
    \/ \E d \in Docs : EndAttempt(d)
    \/ \E d \in Docs : TakeCompleted(d)
    \/ \E d \in Docs : SaveOpen(d)
    \/ \E d \in Docs : SaveClose(d)
    \/ \E d \in Docs : Yield(d)
    \/ Finish

----------------------------------------------------------------------------
(* consolidator.py: backup_and_write as consolidate_vocabularies calls it *)

\* a file is absent, holds a complete text, or holds part of a text that was
\* being written when the writer stopped or a reader looked
Absent == "absent"
Partial == "partial"
Contents == {"c1", "c2"}
Paths == {"master", "bak", "tmp"}
Stamps == 1..MaxStamp

\* temp_path = path.with_suffix(path.suffix + ".tmp")
TempPath_InPlace == "master"

TempPath == "tmp"

\* latest_backup = Path(str(path) + ".bak")
LatestBackup == "bak"

\* if path.exists():
BackupNeeded_Never(f) == FALSE

BackupNeeded(f) == f["master"] # Absent

\* temp_path.replace(path): the rename either happens or changes nothing
ReplaceDone(f) ==
    [p \in Paths |-> IF p = "master" THEN f[TempPath]
                     ELSE IF p = TempPath THEN Absent
                     ELSE f[p]]

ReplaceFailed_Unlinked(f) == [f EXCEPT !["master"] = Absent]

ReplaceFailed(f) == f

ConsInit ==
    /\ files = [p \in Paths |-> Absent]
    /\ stamped = [t \in Stamps |-> Absent]
    /\ now = 1
    /\ cpc = "idle"
    /\ content = Absent
    /\ before = Absent
    /\ backup_path = 0
    /\ calls = 0
    /\ successes = 0

\* the clock passes a second boundary
Tick ==
    /\ now < MaxStamp
    /\ now' = now + 1
    /\ UNCHANGED <<batchVars, libVars, files, stamped, cpc, content, before, backup_path, calls,
                   successes>>

\* consolidate_vocabularies(vocab_files, master_path, blocklist) is called
CallConsolidate ==
    /\ cpc \in {"idle", "done", "error", "read_error"}
    /\ calls < MaxCalls
    /\ calls' = calls + 1
    /\ before' = files["master"]
    /\ backup_path' = 0
    /\ cpc' = "load_master"
    /\ UNCHANGED <<batchVars, libVars, files, stamped, now, content, successes>>

\* if master_path.exists(): json.load and the loop over existing["entries"];
\* nothing is read when there is no master
LoadMaster ==
    /\ cpc = "load_master"
    /\ cpc' = "load_vocabs"
    /\ UNCHANGED <<batchVars, libVars, files, stamped, now, content, before, backup_path, calls,
                   successes>>

\* a failed read leaves the files as they are: the call opened them for reading
ReadFailed_Truncated(f) == [f EXCEPT !["master"] = Partial]

ReadFailed(f) == f

\* open, json.load or entry["canonical"] raises on the existing master
LoadMasterFails ==
    /\ cpc = "load_master"
    /\ files["master"] # Absent
    /\ files' = ReadFailed(files)
    /\ cpc' = "read_error"
    /\ UNCHANGED <<batchVars, libVars, stamped, now, content, before, backup_path, calls,
                   successes>>

\* the loop over vocab_files: every file is opened, parsed and validated
LoadVocabs ==
    /\ cpc = "load_vocabs"
    /\ cpc' = "loaded"
    /\ UNCHANGED <<batchVars, libVars, files, stamped, now, content, before, backup_path, calls,
                   successes>>

\* open, json.load or model_validate raises on one of vocab_files
LoadVocabsFails ==
    /\ cpc = "load_vocabs"
    /\ files' = ReadFailed(files)
    /\ cpc' = "read_error"
    /\ UNCHANGED <<batchVars, libVars, stamped, now, content, before, backup_path, calls,
                   successes>>

\* consolidate_vocabularies has merged its inputs and calls
\* backup_and_write(master_path, master.model_dump_json(indent=2))
CallBackupAndWrite(c) ==
    /\ cpc = "loaded"
    /\ content' = c
    /\ cpc' = "exists"
    /\ UNCHANGED <<batchVars, libVars, files, stamped, now, before, backup_path, calls, successes>>

\* backup_path = None; if path.exists(): timestamp = datetime.now()...
CheckExists ==
    /\ cpc = "exists"
    /\ IF BackupNeeded(files)
       THEN /\ backup_path' = now
            /\ cpc' = "copy_stamped"
       ELSE /\ backup_path' = 0
            /\ cpc' = "open_tmp"
    /\ UNCHANGED <<batchVars, libVars, files, stamped, now, content, before, calls, successes>>

\* shutil.copy2(path, backup_path)
CopyStamped ==
    /\ cpc = "copy_stamped"
    /\ stamped' = [stamped EXCEPT ![backup_path] = files["master"]]
    /\ cpc' = "copy_latest"
    /\ UNCHANGED <<batchVars, libVars, files, now, content, before, backup_path, calls, successes>>

\* shutil.copy2(path, backup_path) raises: the destination could not be opened
\* (left as it was) or was being written (left partial)
CopyStampedFails(opened) ==
    /\ cpc = "copy_stamped"
    /\ stamped' = IF opened THEN [stamped EXCEPT ![backup_path] = Partial] ELSE stamped
    /\ cpc' = "error"
    /\ UNCHANGED <<batchVars, libVars, files, now, content, before, backup_path, calls, successes>>

\* shutil.copy2(path, latest_backup)
CopyLatest ==
    /\ cpc = "copy_latest"
    /\ files' = [files EXCEPT ![LatestBackup] = files["master"]]
    /\ cpc' = "open_tmp"
    /\ UNCHANGED <<batchVars, libVars, stamped, now, content, before, backup_path, calls, successes>>

CopyLatestFails(opened) ==
    /\ cpc = "copy_latest"
    /\ files' = IF opened THEN [files EXCEPT ![LatestBackup] = Partial] ELSE files
    /\ cpc' = "error"
    /\ UNCHANGED <<batchVars, libVars, stamped, now, content, before, backup_path, calls, successes>>

\* with open(temp_path, "w", encoding="utf-8") as f: the file is created empty
OpenTemp ==
    /\ cpc = "open_tmp"
    /\ files' = [files EXCEPT ![TempPath] = Partial]
    /\ cpc' = "write_tmp"
    /\ UNCHANGED <<batchVars, libVars, stamped, now, content, before, backup_path, calls, successes>>

OpenTempFails ==
    /\ cpc = "open_tmp"
    /\ cpc' = "error"
    /\ UNCHANGED <<batchVars, libVars, files, stamped, now, content, before, backup_path, calls,
                   successes>>

\* f.write(content) and the close at the end of the with block
WriteTemp ==
    /\ cpc = "write_tmp"
    /\ files' = [files EXCEPT ![TempPath] = content]
    /\ cpc' = "replace"
    /\ UNCHANGED <<batchVars, libVars, stamped, now, content, before, backup_path, calls, successes>>

WriteTempFails ==
    /\ cpc = "write_tmp"
    /\ cpc' = "error"
    /\ UNCHANGED <<batchVars, libVars, files, stamped, now, content, before, backup_path, calls,
                   successes>>

\* temp_path.replace(path); return backup_path; consolidate_vocabularies returns
Replace ==
    /\ cpc = "replace"
    /\ files' = ReplaceDone(files)
    /\ cpc' = "done"
    /\ successes' = successes + 1
    /\ UNCHANGED <<batchVars, libVars, stamped, now, content, before, backup_path, calls>>

ReplaceFails ==
    /\ cpc = "replace"
    /\ files' = ReplaceFailed(files)
    /\ cpc' = "error"
    /\ UNCHANGED <<batchVars, libVars, stamped, now, content, before, backup_path, calls, successes>>

ConsStep ==
    \/ Tick
    \/ CallConsolidate
    \/ LoadMaster
    \/ LoadMasterFails
    \/ LoadVocabs
    \/ LoadVocabsFails
    \/ \E c \in Contents : CallBackupAndWrite(c)
    \/ CheckExists
    \/ CopyStamped
    \/ \E opened \in BOOLEAN : CopyStampedFails(opened)
    \/ CopyLatest
    \/ \E opened \in BOOLEAN : CopyLatestFails(opened)
    \/ OpenTemp
    \/ OpenTempFails
    \/ WriteTemp
    \/ WriteTempFails
    \/ Replace
    \/ ReplaceFails

----------------------------------------------------------------------------
(* merger.py: merge_duplicates *)

\* longest list of entries handed to merge_duplicates
MaxGroup == 3

\* Python's None; a str is truthy when it is neither None nor empty
None == "None"
Truthy(s) == s # None /\ s # ""

\* confidences and axis scores are counted in thousandths (0.8 is 800)

AXIS_NAMES ==
    <<"fire", "water", "earth", "air", "light", "shadow", "life", "void",
      "force", "binding", "ward", "sight", "mind", "time", "space", "fate">>

\* the order of Python's str comparison on the strings of the model
StringOrder == <<"a", "b", "t1", "t2", "t3">>
StrRank(s) == CHOOSE i \in 1..Len(StringOrder) : StringOrder[i] = s
StrLess(s, t) == StrRank(s) < StrRank(t)

NoAxes == [n \in {} |-> 0]

\* VocabularyEntry: rest stands for genre, intent, pos, category, mood, energy
\* and secondary_intents, which merge_duplicates copies together from base;
\* source is the sequence of the document names that a "; " joins
Entry(can, id, src, conf, tgs, flag, ax) ==
    [canonical |-> can, id |-> id, text |-> id, rest |-> id, source |-> src,
     confidence |-> conf, tags |-> tgs, ip_flag |-> flag, axes |-> ax]

\* entries of one canonical that merge_duplicates is explored on
MergePool ==
    { Entry("a", "x", <<"s1">>, 800, <<"t2", "t1">>, None, [n \in {"fire"} |-> 600]),
      Entry("a", "y", <<"s2">>, 800, <<"t1">>, "f",
            [n \in {"fire", "water"} |-> IF n = "fire" THEN 200 ELSE 400]),
      Entry("a", "z", <<"s1">>, 4, <<>>, "g", NoAxes),
      Entry("a", "w", <<"s2">>, 0, <<"t3">>, "", [n \in {"water"} |-> 1000]),
      Entry("a", "v", <<"s3">>, 6, <<"t3">>, None, [n \in {"fire"} |-> 5]),
      Entry("a", "u", <<"s1">>, 1000, <<>>, None,
            [n \in {"fire", "water"} |-> IF n = "fire" THEN 250 ELSE 1000]),
      Entry("a", "t", <<"s2">>, 1000, <<>>, None,
            [n \in {"fire", "earth"} |-> IF n = "fire" THEN 6 ELSE 4]) }

RECURSIVE SumOver(_, _)
\* sum(f(e) for e in es), with f given as the sequence of its values
SumOver(vals, i) == IF i > Len(vals) THEN 0 ELSE vals[i] + SumOver(vals, i + 1)

Sum(vals) == SumOver(vals, 1)

\* round(num / den, 2) on thousandths: the nearest hundredth; a quotient that
\* lies exactly between two hundredths is a double just above the midpoint for
\* the values of the model, and rounds up
Round2(num, den) ==
    LET unit == 10 * den
        k == num \div unit
        rem == num - k * unit
    IN  IF 2 * rem < unit THEN 10 * k ELSE 10 * (k + 1)

RECURSIVE InsertByConfidence(_, _)
\* where a stable descending sort puts e among already sorted entries that
\* came before it: after every entry of at least its confidence
InsertByConfidence(sorted, e) ==
    IF sorted = <<>> THEN <<e>>
    ELSE IF Head(sorted).confidence >= e.confidence
         THEN <<Head(sorted)>> \o InsertByConfidence(Tail(sorted), e)
         ELSE <<e>> \o sorted

RECURSIVE SortedEntries(_)
\* sorted(entries, key=lambda e: e.confidence, reverse=True)
SortedEntries(es) ==
    IF es = <<>> THEN <<>>
    ELSE InsertByConfidence(SortedEntries(SubSeq(es, 1, Len(es) - 1)), es[Len(es)])

RECURSIVE AllSources(_, _, _)
\* the loop that collects the unseen sources in input order
AllSources(es, i, seen) ==
    IF i > Len(es) THEN <<>>
    ELSE IF es[i].source \in seen THEN AllSources(es, i + 1, seen)
         ELSE <<es[i].source>> \o AllSources(es, i + 1, seen \cup {es[i].source})

RECURSIVE Join(_)
\* "; ".join(all_sources)
Join(parts) == IF parts = <<>> THEN <<>> ELSE Head(parts) \o Join(Tail(parts))

MergedSource(es) == Join(AllSources(es, 1, {}))

RECURSIVE SortedList(_)
\* sorted(list(s)) for a set of strings
SortedList(S) ==
    IF S = {} THEN <<>>
    ELSE LET m == CHOOSE x \in S : \A y \in S \ {x} : StrLess(x, y)
         IN  <<m>> \o SortedList(S \ {m})

\* all_tags.update(entry.tags) for every entry
AllTags(es) == UNION {{es[i].tags[j] : j \in 1..Len(es[i].tags)} : i \in 1..Len(es)}

MergedTags(es) == SortedList(AllTags(es))

\* axes_dict.get(axis, 0.0)
AxisOf(e, axis) == IF axis \in DOMAIN e.axes THEN e.axes[axis] ELSE 0

\* sum(e.confidence for e in entries)
TotalConfidence(es) == Sum([i \in 1..Len(es) |-> es[i].confidence])

\* weighted_sum of one axis; in millionths
WeightedSum(es, axis) == Sum([i \in 1..Len(es) |-> AxisOf(es[i], axis) * es[i].confidence])

\* an average that gives every entry the same weight
AvgScore_Unweighted(es, axis) ==
    Round2(Sum([i \in 1..Len(es) |-> AxisOf(es[i], axis)]), Len(es))

\* avg_score = round(weighted_sum / total_confidence, 2)
AvgScore(es, axis) == Round2(WeightedSum(es, axis), TotalConfidence(es))

\* _merge_axis_scores
MergeAxisScores(es) ==
    IF TotalConfidence(es) = 0 THEN NoAxes
    ELSE LET kept == {AXIS_NAMES[k] : k \in {j \in 1..Len(AXIS_NAMES) :
                                              AvgScore(es, AXIS_NAMES[j]) > 0}}
         IN  [axis \in kept |-> AvgScore(es, axis)]

RECURSIVE FirstFlag(_, _)
\* the loop that keeps the ip_flag of the first flagged entry
FirstFlag(es, i) ==
    IF i > Len(es) THEN None
    ELSE IF Truthy(es[i].ip_flag) THEN es[i].ip_flag
         ELSE FirstFlag(es, i + 1)

MergedIpFlag(es) == FirstFlag(es, 1)

\* round(sum(e.confidence for e in entries) / len(entries), 2)
MergedConfidence_Sum(es) == Round2(TotalConfidence(es), 1)

MergedConfidence(es) == Round2(TotalConfidence(es), Len(es))

\* a base that an unstable sort could pick: the last of the entries that tie
\* for the highest confidence
Base_LastTop(es) ==
    LET top == {i \in 1..Len(es) : \A j \in 1..Len(es) : es[j].confidence <= es[i].confidence}
    IN  es[CHOOSE i \in top : \A j \in top : j <= i]

\* base = sorted_entries[0]
Base_First(es) == es[1]

Base(es) == SortedEntries(es)[1]

\* merge_duplicates(entries), for a non-empty list
MergeDuplicates(es) ==
    IF Len(es) = 1 THEN es[1]
    ELSE [canonical |-> Base(es).canonical,
          id |-> Base(es).id,
          text |-> Base(es).text,
          rest |-> Base(es).rest,
          source |-> MergedSource(es),
          confidence |-> MergedConfidence(es),
          tags |-> MergedTags(es),
          ip_flag |-> MergedIpFlag(es),
          axes |-> MergeAxisScores(es)]

\* no entry: merge_duplicates has not returned for the list
NoMerge == Entry("", "", <<>>, 0, <<>>, None, NoAxes)

MergeInit ==
    /\ mergeEntries = <<>>
    /\ merged = NoMerge

\* the caller collects one more entry of the canonical
MergeAppend(e) ==
    /\ Len(mergeEntries) < MaxGroup
    /\ mergeEntries' = Append(mergeEntries, e)
    /\ merged' = NoMerge
    /\ UNCHANGED <<batchVars, consVars, toolVars, vocabVars, storeVars, pipeVars>>

\* the caller starts a new list
MergeClear ==
    /\ mergeEntries # <<>>
    /\ mergeEntries' = <<>>
    /\ merged' = NoMerge
    /\ UNCHANGED <<batchVars, consVars, toolVars, vocabVars, storeVars, pipeVars>>

\* merged = merge_duplicates(entries)
CallMergeDuplicates ==
    /\ mergeEntries # <<>>
    /\ merged' = MergeDuplicates(mergeEntries)
    /\ UNCHANGED <<batchVars, consVars, toolVars, vocabVars, storeVars, pipeVars, mergeEntries>>

MergeStep ==
    \/ \E e \in MergePool : MergeAppend(e)
    \/ MergeClear
    \/ CallMergeDuplicates

----------------------------------------------------------------------------
(* consolidator.py: consolidate_vocabularies on the entries of the files *)

\* most files in vocab_files, and most entries in all of them together
MaxFiles == 2
MaxEntries == 3

\* entries that the per-document vocabulary files hold: two documents that
\* name canonical "a" differently, and one entry of canonical "b"
VocabPool ==
    { Entry("a", "x", <<"s1">>, 800, <<"t2", "t1">>, "", [n \in {"fire"} |-> 600]),
      Entry("a", "y", <<"s2">>, 300, <<"t1">>, "f", [n \in {"water"} |-> 400]),
      Entry("b", "B", <<"s1">>, 200, <<"t3">>, None, NoAxes) }

\* str.lower() on the strings of the model
Lower(s) == IF s = "B" THEN "b" ELSE s

\* the words of a string of the model, for the \b...\b patterns
Words(s) == {s}

\* IPBlocklist.franchises after load(): the franchises in the order of the file
\* the argument blocklist: None (not given), or an IPBlocklist
NoBlocklist == [given |-> FALSE, franchises |-> <<>>]
TheBlocklist ==
    [given |-> TRUE, franchises |-> <<[franchise |-> "dnd", terms |-> {"b", "y"}]>>]
Blocklists == {NoBlocklist, TheBlocklist}

RECURSIVE CheckFrom(_, _, _, _)
\* IPBlocklist.check(term, canonical): the first franchise that matches
CheckFrom(bl, i, term, canonical) ==
    IF i > Len(bl) THEN None
    ELSE IF \/ Lower(term) \in bl[i].terms
            \/ Lower(canonical) \in bl[i].terms
            \/ \E t \in bl[i].terms : t \in Words(Lower(term)) \cup Words(Lower(canonical))
         THEN bl[i].franchise
         ELSE CheckFrom(bl, i + 1, term, canonical)

Check(bl, term, canonical) == CheckFrom(bl.franchises, 1, term, canonical)

\* f"blocklist:{franchise}"
BlocklistFlag(franchise) == "blocklist:" \o franchise

\* model_dump_json and json.load on one entry: None is written as null
DumpJson_NoTags(e) == [e EXCEPT !.ip_flag = IF @ = None THEN "null" ELSE @, !.tags = <<>>]

DumpJson(e) == [e EXCEPT !.ip_flag = IF @ = None THEN "null" ELSE @]

LoadJson(j) == [j EXCEPT !.ip_flag = IF @ = "null" THEN None ELSE @]

\* the entries of all files, in the order the two loops visit them
AllEntries(vfs) == Join(vfs)

Canonicals(es) == {es[i].canonical : i \in 1..Len(es)}

RECURSIVE KeysFrom(_, _, _)
\* by_canonical.keys(): the canonicals in the order of their first entry
KeysFrom(es, i, seen) ==
    IF i > Len(es) THEN <<>>
    ELSE IF es[i].canonical \in seen THEN KeysFrom(es, i + 1, seen)
         ELSE <<es[i].canonical>> \o KeysFrom(es, i + 1, seen \cup {es[i].canonical})

Keys(es) == KeysFrom(es, 1, {})

RECURSIVE Bucket(_, _)
\* by_canonical[c]
Bucket(es, c) ==
    IF es = <<>> THEN <<>>
    ELSE IF Head(es).canonical = c THEN <<Head(es)>> \o Bucket(Tail(es), c)
         ELSE Bucket(Tail(es), c)

\* a blocklist branch that flags every match, whatever flag merged carries
ApplyBlocklist_Overwrite(bl, m) ==
    IF ~bl.given THEN m
    ELSE LET franchise == Check(bl, m.text, m.canonical)
         IN  IF franchise # None
             THEN [m EXCEPT !.ip_flag = BlocklistFlag(franchise)]
             ELSE m

\* the blocklist branch of the merge loop
ApplyBlocklist(bl, m) ==
    IF ~bl.given THEN m
    ELSE LET franchise == Check(bl, m.text, m.canonical)
         IN  IF franchise # None /\ ~Truthy(m.ip_flag)
             THEN [m EXCEPT !.ip_flag = BlocklistFlag(franchise)]
             ELSE m

\* merged, as the loop appends it to merged_entries, for canonical c
MergedFor(es, bl, c) == ApplyBlocklist(bl, MergeDuplicates(Bucket(es, c)))

\* merged_entries before the sort
MergedEntries(es, bl) == [i \in 1..Len(Keys(es)) |-> MergedFor(es, bl, Keys(es)[i])]

RECURSIVE InsertByCanonical(_, _)
InsertByCanonical(sorted, e) ==
    IF sorted = <<>> THEN <<e>>
    ELSE IF StrLess(e.canonical, Head(sorted).canonical) THEN <<e>> \o sorted
         ELSE <<Head(sorted)>> \o InsertByCanonical(Tail(sorted), e)

RECURSIVE SortByCanonical(_)
\* merged_entries.sort(key=lambda e: e.canonical)
SortByCanonical_Unsorted(es) == es

SortByCanonical(es) ==
    IF es = <<>> THEN <<>>
    ELSE InsertByCanonical(SortByCanonical(SubSeq(es, 1, Len(es) - 1)), es[Len(es)])

\* existing_entries: the entries of the master file by canonical, the last
\* entry of a canonical winning; empty when the file does not exist
ExistingEntries(m) ==
    LET es == IF m.exists THEN m.entries ELSE <<>>
    IN  [c \in Canonicals(es) |->
            LoadJson(es[CHOOSE i \in 1..Len(es) :
                        /\ es[i].canonical = c
                        /\ \A j \in (i + 1)..Len(es) : es[j].canonical # c])]

\* no file at master_path
NoMaster == [exists |-> FALSE, entries |-> <<>>]

\* _has_changes(old, new)
HasChanges_WithFlag(old, new) == old # new

HasChanges(old, new) ==
    [old EXCEPT !.ip_flag = None] # [new EXCEPT !.ip_flag = None]

\* removed = set(existing_entries.keys()) - new_canonicals
Removed_All(existing, es) == DOMAIN existing

Removed(existing, es) == DOMAIN existing \ Canonicals(es)

NoSummary == [added |-> {"-"}, updated |-> {"-"}, removed |-> {"-"}, flagged |-> {"-"}]

\* the ConsolidationSummary of a call that finds existing and merges es
SummaryOf(existing, es, bl) ==
    LET ms == MergedEntries(es, bl)
        new == {i \in 1..Len(ms) : ms[i].canonical \notin DOMAIN existing}
        old == {i \in 1..Len(ms) : ms[i].canonical \in DOMAIN existing}
    IN  [added |-> {ms[i].canonical : i \in new},
         updated |-> {ms[i].canonical :
                        i \in {j \in old : HasChanges(existing[ms[j].canonical], ms[j])}},
         removed |-> Removed(existing, es),
         flagged |-> {ms[i].canonical : i \in {j \in 1..Len(ms) : Truthy(ms[j].ip_flag)}}]

\* the master file that the call writes
MasterOf(es, bl) ==
    LET sorted == SortByCanonical(MergedEntries(es, bl))
    IN  [exists |-> TRUE, entries |-> [i \in 1..Len(sorted) |-> DumpJson(sorted[i])]]

TotalEntries(vfs) == Len(AllEntries(vfs))

VocabInit ==
    /\ vocab_files = <<>>
    /\ blocklist = NoBlocklist
    /\ master = NoMaster
    /\ existing_entries = ExistingEntries(NoMaster)
    /\ summary = NoSummary

\* between two consolidations: another per-document file joins vocab_files
AddVocabFile ==
    /\ Len(vocab_files) < MaxFiles
    /\ vocab_files' = Append(vocab_files, <<>>)
    /\ existing_entries' = ExistingEntries(NoMaster)
    /\ summary' = NoSummary
    /\ UNCHANGED <<batchVars, consVars, toolVars, mergeVars, storeVars, pipeVars, blocklist, master>>

\* between two consolidations: the last file of vocab_files holds one more entry
AddVocabEntry(e) ==
    /\ vocab_files # <<>>
    /\ TotalEntries(vocab_files) < MaxEntries
    /\ vocab_files' = [vocab_files EXCEPT ![Len(vocab_files)] = Append(@, e)]
    /\ existing_entries' = ExistingEntries(NoMaster)
    /\ summary' = NoSummary
    /\ UNCHANGED <<batchVars, consVars, toolVars, mergeVars, storeVars, pipeVars, blocklist, master>>

\* between two consolidations: the per-document files are gone
ClearVocabFiles ==
    /\ vocab_files # <<>>
    /\ vocab_files' = <<>>
    /\ existing_entries' = ExistingEntries(NoMaster)
    /\ summary' = NoSummary
    /\ UNCHANGED <<batchVars, consVars, toolVars, mergeVars, storeVars, pipeVars, blocklist, master>>

\* between two consolidations: the caller passes another blocklist
SetBlocklist(bl) ==
    /\ bl # blocklist
    /\ blocklist' = bl
    /\ existing_entries' = ExistingEntries(NoMaster)
    /\ summary' = NoSummary
    /\ UNCHANGED <<batchVars, consVars, toolVars, mergeVars, storeVars, pipeVars, vocab_files, master>>

\* consolidate_vocabularies(vocab_files, master_path, blocklist) returns
ConsolidateVocabularies ==
    /\ existing_entries' = ExistingEntries(master)
    /\ master' = MasterOf(AllEntries(vocab_files), blocklist)
    /\ summary' = SummaryOf(ExistingEntries(master), AllEntries(vocab_files), blocklist)
    /\ UNCHANGED <<batchVars, consVars, toolVars, mergeVars, storeVars, pipeVars, vocab_files, blocklist>>

\* consolidate_vocabularies raises: a file could not be read, or
\* backup_and_write failed and left the master as it was
ConsolidateRaises ==
    /\ summary # NoSummary
    /\ existing_entries' = ExistingEntries(NoMaster)
    /\ summary' = NoSummary
    /\ UNCHANGED <<batchVars, consVars, toolVars, mergeVars, storeVars, pipeVars, vocab_files, blocklist, master>>

VocabStep ==
    \/ AddVocabFile
    \/ \E e \in VocabPool : AddVocabEntry(e)
    \/ ClearVocabFiles
    \/ \E bl \in Blocklists : SetBlocklist(bl)
    \/ ConsolidateVocabularies
    \/ ConsolidateRaises

----------------------------------------------------------------------------
(* manifest.py: the operations of CorporaManifest on its documents *)

\* paths a caller passes; two of them spell the same file
SourcePaths == {"A.pdf", "./A.pdf", "A.epub", "B.pdf"}

\* str(path): pathlib drops a leading "./"
Str(p) == IF p = "./A.pdf" THEN "A.pdf" ELSE p

StoreKeys == {Str(p) : p \in SourcePaths}

\* vocab_path = output_dir / f"{source.stem}.vocab.json"
VocabPathOf(p) == IF Str(p) = "B.pdf" THEN "B.vocab.json" ELSE "A.vocab.json"

VocabPaths == {VocabPathOf(p) : p \in SourcePaths}

\* compute_file_hash: the MD5 digest of the bytes of the file; the contents of
\* the model have different digests
ComputeFileHash_OfNothing(c) == "h1"

ComputeFileHash(c) == IF c = "c1" THEN "h1" ELSE "h2"

\* key in self.documents
HasKey(docs, k) == \E i \in 1..Len(docs) : docs[i].key = k

\* self.documents[key]
EntryOf(docs, k) == docs[CHOOSE i \in 1..Len(docs) : docs[i].key = k]

\* CorporaManifest.needs_processing(source_path) on the files fs
StoreNeedsProcessing(docs, fs, p) ==
    IF ~HasKey(docs, Str(p)) THEN TRUE
    ELSE ComputeFileHash(fs[Str(p)]) # EntryOf(docs, Str(p)).source_hash

\* CorporaManifest.update_entry(source, vocab, term_count): the dict keeps the
\* place of a key it already holds and puts a new key last
StoreUpdateEntry(docs, fs, p, vp) ==
    LET e == [key |-> Str(p), source_hash |-> ComputeFileHash(fs[Str(p)]), vocab_path |-> vp]
    IN  IF HasKey(docs, Str(p))
        THEN [i \in 1..Len(docs) |-> IF docs[i].key = Str(p) THEN e ELSE docs[i]]
        ELSE Append(docs, e)

RECURSIVE OrphansFrom(_, _, _)
OrphansFrom(docs, i, current_keys) ==
    IF i > Len(docs) THEN <<>>
    ELSE IF docs[i].key \notin current_keys
         THEN <<docs[i].vocab_path>> \o OrphansFrom(docs, i + 1, current_keys)
         ELSE OrphansFrom(docs, i + 1, current_keys)

\* CorporaManifest.get_orphaned_vocabs(current_sources)
GetOrphanedVocabs_All(docs, current_sources) ==
    OrphansFrom(docs, 1, {})

GetOrphanedVocabs(docs, current_sources) ==
    OrphansFrom(docs, 1, {Str(p) : p \in current_sources})

NoAnswer == [path |-> "", value |-> FALSE]
NoOrphans == [sources |-> {""}, paths |-> <<>>]

StoreInit ==
    /\ documents = <<>>
    /\ sourceFiles = [k \in StoreKeys |-> "c1"]
    /\ recorded = [k \in StoreKeys |-> Absent]
    /\ answer = NoAnswer
    /\ orphans = NoOrphans

\* manifest.update_entry(source, vocab_path, term_count)
CallUpdateEntry(p) ==
    /\ documents' = StoreUpdateEntry(documents, sourceFiles, p, VocabPathOf(p))
    /\ recorded' = [recorded EXCEPT ![Str(p)] = sourceFiles[Str(p)]]
    /\ answer' = NoAnswer
    /\ orphans' = NoOrphans
    /\ UNCHANGED <<batchVars, consVars, toolVars, mergeVars, vocabVars, pipeVars, sourceFiles>>

\* somebody writes other bytes to a source file
EditSource(k, c) ==
    /\ c # sourceFiles[k]
    /\ sourceFiles' = [sourceFiles EXCEPT ![k] = c]
    /\ answer' = NoAnswer
    /\ orphans' = NoOrphans
    /\ UNCHANGED <<batchVars, consVars, toolVars, mergeVars, vocabVars, pipeVars, documents, recorded>>

\* manifest.needs_processing(source_path)
CallNeedsProcessing(p) ==
    /\ answer' = [path |-> p, value |-> StoreNeedsProcessing(documents, sourceFiles, p)]
    /\ orphans' = NoOrphans
    /\ UNCHANGED <<batchVars, consVars, toolVars, mergeVars, vocabVars, pipeVars, documents, sourceFiles, recorded>>

\* manifest.get_orphaned_vocabs(current_sources)
CallGetOrphanedVocabs(current_sources) ==
    /\ orphans' = [sources |-> current_sources,
                   paths |-> GetOrphanedVocabs(documents, current_sources)]
    /\ answer' = NoAnswer
    /\ UNCHANGED <<batchVars, consVars, toolVars, mergeVars, vocabVars, pipeVars, documents, sourceFiles, recorded>>

StoreStep ==
    \/ \E p \in SourcePaths : CallUpdateEntry(p)
    \/ \E k \in StoreKeys, c \in Contents : EditSource(k, c)
    \/ \E p \in SourcePaths : CallNeedsProcessing(p)
    \/ \E current_sources \in SUBSET SourcePaths : CallGetOrphanedVocabs(current_sources)

----------------------------------------------------------------------------
(* processor.py: one call of _process_single_document *)

\* most candidate terms the extractor returns for a document
MaxTerms == 3

\* source.suffix.lower()
Suffixes == {".pdf", ".epub", ".txt"}

\* DocumentResult: status, term_count, whether vocab_path is set, error
PipeResult(st, n, v, e) == [status |-> st, term_count |-> n, vocab |-> v, error |-> e]
NoPipeResult == PipeResult("NONE", 0, FALSE, "")

\* the statements inside the try of _process_single_document, in order; an
\* exception raised in one of them reaches the except clause of the method
TryStages == {"parse", "text", "candidates", "client", "blocklist", "write"}

\* the except clause of the loop over candidates: the term is skipped
SkipFailedTerm_DropAll(terms) == <<>>

SkipFailedTerm(terms) == terms

\* term_count=len(vocab_output.entries): write_vocab_file makes one entry per
\* classified term
TermCount(terms) == Len(terms)

PipeInit ==
    /\ stage = "idle"
    /\ suffix = ".pdf"
    /\ blocklist_path = FALSE
    /\ full_text = FALSE
    /\ candidates = 0
    /\ termPos = 1
    /\ classified_terms = <<>>
    /\ failedTerms = {}
    /\ raisedIn = "none"
    /\ docResult = NoPipeResult

\* _process_single_document(source) is called, with or without a blocklist
\* configured; the imports at its head succeed
PipeCall(sfx, bl) ==
    /\ stage \in {"idle", "returned"}
    /\ stage' = "parse"
    /\ suffix' = sfx
    /\ blocklist_path' = bl
    /\ full_text' = FALSE
    /\ candidates' = 0
    /\ termPos' = 1
    /\ classified_terms' = <<>>
    /\ failedTerms' = {}
    /\ raisedIn' = "none"
    /\ docResult' = NoPipeResult
    /\ UNCHANGED <<batchVars, consVars, toolVars, mergeVars, vocabVars, storeVars>>

\* an exception in a statement of the try other than classify_term:
\* return DocumentResult(status=FAILED, error=str(e))
PipeRaises ==
    /\ stage \in TryStages \ {"text"}
    /\ stage = "blocklist" => blocklist_path
    /\ raisedIn' = stage
    /\ docResult' = PipeResult("FAILED", 0, FALSE, "e1")
    /\ stage' = "returned"
    /\ UNCHANGED <<batchVars, consVars, toolVars, mergeVars, vocabVars, storeVars, suffix,
                   blocklist_path, full_text, candidates, termPos, classified_terms,
                   failedTerms>>

\* 1. the parser is chosen by the suffix and parses the document
PipeParse(text) ==
    /\ stage = "parse"
    /\ IF suffix \in {".pdf", ".epub"}
       THEN /\ stage' = "text"
            /\ full_text' = text
            /\ UNCHANGED <<raisedIn, docResult>>
       ELSE \* raise ValueError(f"Unsupported format: {ext}")
            /\ stage' = "returned"
            /\ raisedIn' = "parse"
            /\ docResult' = PipeResult("FAILED", 0, FALSE, "e1")
            /\ UNCHANGED full_text
    /\ UNCHANGED <<batchVars, consVars, toolVars, mergeVars, vocabVars, storeVars, suffix,
                   blocklist_path, candidates, termPos, classified_terms, failedTerms>>

\* 2. if not full_text.strip(): return SUCCESS with term_count=0
PipeText ==
    /\ stage = "text"
    /\ IF full_text
       THEN /\ stage' = "candidates"
            /\ UNCHANGED docResult
       ELSE /\ stage' = "returned"
            /\ docResult' = PipeResult("SUCCESS", 0, FALSE, "")
    /\ UNCHANGED <<batchVars, consVars, toolVars, mergeVars, vocabVars, storeVars, suffix,
                   blocklist_path, full_text, candidates, termPos, classified_terms,
                   failedTerms, raisedIn>>

\* 3. candidates = extractor.extract(full_text); if not candidates: return
\* SUCCESS with term_count=0
PipeCandidates(n) ==
    /\ stage = "candidates"
    /\ candidates' = n
    /\ IF n > 0
       THEN /\ stage' = "client"
            /\ UNCHANGED docResult
       ELSE /\ stage' = "returned"
            /\ docResult' = PipeResult("SUCCESS", 0, FALSE, "")
    /\ UNCHANGED <<batchVars, consVars, toolVars, mergeVars, vocabVars, storeVars, suffix,
                   blocklist_path, full_text, termPos, classified_terms, failedTerms,
                   raisedIn>>

\* 4. client = ClassificationClient()
PipeClient ==
    /\ stage = "client"
    /\ stage' = "classify"
    /\ UNCHANGED <<batchVars, consVars, toolVars, mergeVars, vocabVars, storeVars, suffix,
                   blocklist_path, full_text, candidates, termPos, classified_terms,
                   failedTerms, raisedIn, docResult>>

\* one iteration of "for term in candidates": classify_term returns or raises
PipeClassify(ok) ==
    /\ stage = "classify"
    /\ termPos <= candidates
    /\ IF ok
       THEN /\ classified_terms' = Append(classified_terms, termPos)
            /\ UNCHANGED failedTerms
       ELSE /\ classified_terms' = SkipFailedTerm(classified_terms)
            /\ failedTerms' = failedTerms \cup {termPos}
    /\ termPos' = termPos + 1
    /\ UNCHANGED <<batchVars, consVars, toolVars, mergeVars, vocabVars, storeVars, stage, suffix,
                   blocklist_path, full_text, candidates, raisedIn, docResult>>

\* the loop over candidates ends
PipeClassified ==
    /\ stage = "classify"
    /\ termPos > candidates
    /\ stage' = "blocklist"
    /\ UNCHANGED <<batchVars, consVars, toolVars, mergeVars, vocabVars, storeVars, suffix,
                   blocklist_path, full_text, candidates, termPos, classified_terms,
                   failedTerms, raisedIn, docResult>>

\* 5. the blocklist, when configured, flags terms; it drops none
PipeBlocklist ==
    /\ stage = "blocklist"
    /\ stage' = "write"
    /\ UNCHANGED <<batchVars, consVars, toolVars, mergeVars, vocabVars, storeVars, suffix,
                   blocklist_path, full_text, candidates, termPos, classified_terms,
                   failedTerms, raisedIn, docResult>>

\* 6. write_vocab_file and the return of SUCCESS with vocab_path
PipeWrite ==
    /\ stage = "write"
    /\ stage' = "returned"
    /\ docResult' = PipeResult("SUCCESS", TermCount(classified_terms), TRUE, "")
    /\ UNCHANGED <<batchVars, consVars, toolVars, mergeVars, vocabVars, storeVars, suffix,
                   blocklist_path, full_text, candidates, termPos, classified_terms,
                   failedTerms, raisedIn>>

PipeStep ==
    \/ \E sfx \in Suffixes, bl \in BOOLEAN : PipeCall(sfx, bl)
    \/ PipeRaises
    \/ \E text \in BOOLEAN : PipeParse(text)
    \/ PipeText
    \/ \E n \in 0..MaxTerms : PipeCandidates(n)
    \/ PipeClient
    \/ \E ok \in BOOLEAN : PipeClassify(ok)
    \/ PipeClassified
    \/ PipeBlocklist
    \/ PipeWrite

----------------------------------------------------------------------------
(* batch/models.py: BatchSummary.get_exit_code *)

\* largest value of a count field of a BatchSummary
MaxCount == 2

\* exit codes per sysexits.h convention
EXIT_SUCCESS == 0
EXIT_PARTIAL == 75
EXIT_NO_INPUT == 66

\* the int fields of BatchSummary that get_exit_code reads; the model
\* validates types only, so the fields need not add up
BatchSummary(total, proc, skip, fail) ==
    [total_documents |-> total, processed |-> proc, skipped |-> skip, failed |-> fail]

\* a get_exit_code that reports a run where every attempted document failed
\* as a run without input
GetExitCode_NoSuccessNoInput(self) ==
    IF self.total_documents = 0 THEN EXIT_NO_INPUT
    ELSE IF self.failed = 0 THEN EXIT_SUCCESS
    ELSE IF self.processed > 0 THEN EXIT_PARTIAL
    ELSE EXIT_NO_INPUT

GetExitCode(self) ==
    IF self.total_documents = 0 THEN EXIT_NO_INPUT
    ELSE IF self.failed = 0 THEN EXIT_SUCCESS
    ELSE IF self.processed > 0 THEN EXIT_PARTIAL
    ELSE EXIT_PARTIAL

ExitInit ==
    /\ batch_summary = BatchSummary(0, 0, 0, 0)
    /\ exit_code = <<>>

\* BatchSummary(total_documents=..., processed=..., skipped=..., failed=...)
MakeSummary(total, proc, skip, fail) ==
    /\ batch_summary' = BatchSummary(total, proc, skip, fail)
    /\ batch_summary' # batch_summary
    /\ exit_code' = <<>>
    /\ UNCHANGED <<batchVars, consVars, mergeVars, vocabVars, storeVars, pipeVars, ipVars, poolVars>>

\* summary.get_exit_code()
CallGetExitCode ==
    /\ exit_code = <<>>
    /\ exit_code' = <<GetExitCode(batch_summary)>>
    /\ UNCHANGED <<batchVars, consVars, mergeVars, vocabVars, storeVars, pipeVars, ipVars, poolVars,
                   batch_summary>>

ExitStep ==
    \/ \E total, proc, skip, fail \in 0..MaxCount : MakeSummary(total, proc, skip, fail)
    \/ CallGetExitCode

----------------------------------------------------------------------------
(* ip/detector.py: detect_ip and flag_terms *)

\* longest list of terms handed to flag_terms
MaxIpTerms == 2

\* an ip_flag is a str, written here as the sequence of its pieces so that
\* startswith, the f-strings and join are computed; None is <<None>>. No
\* piece is a prefix of another, so two sequences are the same str only when
\* they are equal
NoneFlag == <<None>>

\* truthiness of an Optional[str]
HasFlag(f) == f # NoneFlag /\ f # <<>>

\* term.ip_flag.startswith("blocklist:")
StartsWithBlocklist(f) == Len(f) > 0 /\ f[1] = "blocklist:"

\* ClassifiedTerm, the fields detect_ip reads
Term(text, canonical, flag) == [text |-> text, canonical |-> canonical, ip_flag |-> flag]

\* flags a term can carry before detect_ip: none, empty, a free-text reason of
\* the classifier, and flags that already have the blocklist prefix
IpFlags ==
    { NoneFlag, <<>>, <<"ip-suspect">>, <<"blocklist:", "dnd">>, <<"blocklist:", "lotr">> }

\* terms flag_terms is explored on: "a" is on no blocklist, "B" (canonical
\* "b") is a term of franchise "dnd" in TheBlocklist
IpTermPool ==
    { Term(t[1], t[2], f) : t \in {<<"a", "a">>, <<"B", "b">>}, f \in IpFlags }

RECURSIVE JoinReasons(_)
\* ";".join(reasons)
JoinReasons(reasons) ==
    IF Len(reasons) = 1 THEN reasons[1]
    ELSE reasons[1] \o <<";">> \o JoinReasons(Tail(reasons))

\* reasons after the blocklist branch: an IPBlocklist object is truthy
BlocklistReasons(term, bl) ==
    IF ~bl.given THEN <<>>
    ELSE LET franchise == Check(bl, term.text, term.canonical)
         IN  IF Truthy(franchise) THEN << <<"blocklist:", franchise>> >> ELSE <<>>

\* what the branch on term.ip_flag appends to reasons
PriorReasons(term, reasons) ==
    IF ~HasFlag(term.ip_flag) THEN <<>>
    ELSE IF ~StartsWithBlocklist(term.ip_flag)
         THEN << <<"classification:">> \o term.ip_flag >>
         ELSE IF \A i \in 1..Len(reasons) : reasons[i] # term.ip_flag
              THEN <<term.ip_flag>>
              ELSE <<>>

\* a detect_ip that lists the classification reason before the blocklist one
DetectIp_ClassificationFirst(term, bl) ==
    LET found == BlocklistReasons(term, bl)
        reasons == PriorReasons(term, found) \o found
    IN  IF reasons = <<>> THEN NoneFlag ELSE JoinReasons(reasons)

DetectIp(term, bl) ==
    LET found == BlocklistReasons(term, bl)
        reasons == found \o PriorReasons(term, found)
    IN  IF reasons = <<>> THEN NoneFlag ELSE JoinReasons(reasons)

\* flag_terms: model_copy gives a flagged term a new object, a term without
\* result is appended as it is
FlagTerms(terms, bl) ==
    [i \in 1..Len(terms) |->
        LET ip_result == DetectIp(terms[i], bl)
        IN  IF HasFlag(ip_result) THEN [terms[i] EXCEPT !.ip_flag = ip_result]
            ELSE terms[i]]

\* the list terms after flag_terms(terms, blocklist) returned: the call
\* assigns to no term of it
TermsAfterFlagTerms(terms, bl) == terms

NotFlagged == [called |-> FALSE, terms |-> <<>>]

IpInit ==
    /\ ipTerms = <<>>
    /\ ipBlocklist = NoBlocklist
    /\ ip_results = <<>>
    /\ flagged_terms = NotFlagged
    /\ reflagged_terms = NotFlagged

\* the caller builds the list terms
IpAppend(t) ==
    /\ Len(ipTerms) < MaxIpTerms
    /\ ipTerms' = Append(ipTerms, t)
    /\ ip_results' = <<>>
    /\ flagged_terms' = NotFlagged
    /\ reflagged_terms' = NotFlagged
    /\ UNCHANGED <<batchVars, consVars, mergeVars, vocabVars, storeVars, pipeVars, exitVars, poolVars,
                   ipBlocklist>>

IpClear ==
    /\ ipTerms # <<>>
    /\ ipTerms' = <<>>
    /\ ip_results' = <<>>
    /\ flagged_terms' = NotFlagged
    /\ reflagged_terms' = NotFlagged
    /\ UNCHANGED <<batchVars, consVars, mergeVars, vocabVars, storeVars, pipeVars, exitVars, poolVars,
                   ipBlocklist>>

\* the caller passes blocklist=None, or the IPBlocklist it loaded
SetIpBlocklist(bl) ==
    /\ bl # ipBlocklist
    /\ ipBlocklist' = bl
    /\ ip_results' = <<>>
    /\ flagged_terms' = NotFlagged
    /\ reflagged_terms' = NotFlagged
    /\ UNCHANGED <<batchVars, consVars, mergeVars, vocabVars, storeVars, pipeVars, exitVars, poolVars,
                   ipTerms>>

\* flagged_terms = flag_terms(terms, blocklist)
CallFlagTerms ==
    /\ ~flagged_terms.called
    /\ ip_results' = [i \in 1..Len(ipTerms) |-> DetectIp(ipTerms[i], ipBlocklist)]
    /\ flagged_terms' = [called |-> TRUE, terms |-> FlagTerms(ipTerms, ipBlocklist)]
    /\ ipTerms' = TermsAfterFlagTerms(ipTerms, ipBlocklist)
    /\ UNCHANGED <<batchVars, consVars, mergeVars, vocabVars, storeVars, pipeVars, exitVars, poolVars,
                   ipBlocklist, reflagged_terms>>

\* flag_terms(flagged_terms, blocklist): flag_terms on its own output
CallFlagTermsAgain ==
    /\ flagged_terms.called
    /\ ~reflagged_terms.called
    /\ reflagged_terms' =
           [called |-> TRUE, terms |-> FlagTerms(flagged_terms.terms, ipBlocklist)]
    /\ flagged_terms' =
           [flagged_terms EXCEPT
               !.terms = TermsAfterFlagTerms(flagged_terms.terms, ipBlocklist)]
    /\ UNCHANGED <<batchVars, consVars, mergeVars, vocabVars, storeVars, pipeVars, exitVars, poolVars,
                   ipTerms, ipBlocklist, ip_results>>

IpStep ==
    \/ \E t \in IpTermPool : IpAppend(t)
    \/ IpClear
    \/ \E bl \in Blocklists : SetIpBlocklist(bl)
    \/ CallFlagTerms
    \/ CallFlagTermsAgain

----------------------------------------------------------------------------
(* processor.py: the worker pool of process(), with the threads named *)

\* documents in to_process
NTasks == 3
\* largest max_workers a caller asks BatchConfig for
MaxRequested == 17
\* largest os.cpu_count(); 0 stands for None
MaxCpu == 2

\* Field(ge=1, le=16) of BatchConfig.max_workers
MIN_WORKERS == 1
MAX_WORKERS == 16
\* os.cpu_count() or 4
DEFAULT_CPUS == 4

Tasks == 1..NTasks

\* a ThreadPoolExecutor that takes the configured number whatever the machine has
PoolWorkers_ConfigOnly == max_workers

\* max_workers = min(self.config.max_workers, os.cpu_count() or 4)
PoolWorkers ==
    LET cpus == IF cpu_count = 0 THEN DEFAULT_CPUS ELSE cpu_count
    IN  IF max_workers < cpus THEN max_workers ELSE cpus

\* the threads of the executor; it starts at most one thread per submit
Threads == 1..(IF PoolWorkers < NTasks THEN PoolWorkers ELSE NTasks)

\* documents whose _process_with_retry is running on a thread
RunningTasks == {d \in Tasks : taskPhase[d] \in {"first", "second"}}

BusyThreads == {taskThread[d] : d \in RunningTasks}

NoTasks == [d \in Tasks |-> "none"]
NoThreads == [d \in Tasks |-> 0]

PoolInit ==
    /\ max_workers = 4
    /\ cpu_count = 0
    /\ poolPc = "none"
    /\ taskPhase = NoTasks
    /\ firstThread = NoThreads
    /\ taskThread = NoThreads

\* BatchConfig(..., max_workers=n) on a machine with c CPUs: pydantic rejects
\* a value outside 1..16
MakeConfig(n, c) ==
    /\ poolPc \in {"none", "rejected", "closed"}
    /\ max_workers' = n
    /\ cpu_count' = c
    /\ poolPc' = IF n >= MIN_WORKERS /\ n <= MAX_WORKERS THEN "configured" ELSE "rejected"
    /\ taskPhase' = NoTasks
    /\ firstThread' = NoThreads
    /\ taskThread' = NoThreads
    /\ UNCHANGED <<batchVars, consVars, mergeVars, vocabVars, storeVars, pipeVars, exitVars,
                   ipVars>>

\* with ThreadPoolExecutor(max_workers=max_workers) as executor: every document
\* of to_process is submitted
OpenPool ==
    /\ poolPc = "configured"
    /\ poolPc' = "open"
    /\ taskPhase' = [d \in Tasks |-> "queued"]
    /\ UNCHANGED <<batchVars, consVars, mergeVars, vocabVars, storeVars, pipeVars, exitVars,
                   ipVars, max_workers, cpu_count, firstThread, taskThread>>

\* an idle thread takes the oldest work item and calls _process_with_retry,
\* which makes the first call of _process_single_document; the threads are
\* interchangeable, so the idle thread of lowest number stands for any of them
TakeTask(d) ==
    /\ poolPc = "open"
    /\ taskPhase[d] = "queued"
    /\ \A e \in Tasks : e < d => taskPhase[e] # "queued"
    /\ Threads \ BusyThreads # {}
    /\ LET t == CHOOSE u \in Threads \ BusyThreads :
                    \A v \in Threads \ BusyThreads : u <= v
       IN  /\ taskThread' = [taskThread EXCEPT ![d] = t]
           /\ firstThread' = [firstThread EXCEPT ![d] = t]
    /\ taskPhase' = [taskPhase EXCEPT ![d] = "first"]
    /\ UNCHANGED <<batchVars, consVars, mergeVars, vocabVars, storeVars, pipeVars, exitVars,
                   ipVars, max_workers, cpu_count, poolPc>>

\* the first call returns: FAILED makes _process_with_retry call again, in the
\* same function call and so on the same thread; otherwise the work item ends
FirstReturns(d, failed) ==
    /\ poolPc = "open"
    /\ taskPhase[d] = "first"
    /\ IF failed
       THEN /\ taskPhase' = [taskPhase EXCEPT ![d] = "second"]
            /\ UNCHANGED <<taskThread, firstThread>>
       ELSE /\ taskPhase' = [taskPhase EXCEPT ![d] = "done"]
            /\ taskThread' = [taskThread EXCEPT ![d] = 0]
            /\ firstThread' = [firstThread EXCEPT ![d] = 0]
    /\ UNCHANGED <<batchVars, consVars, mergeVars, vocabVars, storeVars, pipeVars, exitVars,
                   ipVars, max_workers, cpu_count, poolPc>>

\* the second call returns and the work item ends
SecondReturns(d) ==
    /\ poolPc = "open"
    /\ taskPhase[d] = "second"
    /\ taskPhase' = [taskPhase EXCEPT ![d] = "done"]
    /\ taskThread' = [taskThread EXCEPT ![d] = 0]
    /\ firstThread' = [firstThread EXCEPT ![d] = 0]
    /\ UNCHANGED <<batchVars, consVars, mergeVars, vocabVars, storeVars, pipeVars, exitVars,
                   ipVars, max_workers, cpu_count, poolPc>>

\* the with block ends: shutdown(wait=True)
ClosePool ==
    /\ poolPc = "open"
    /\ \A d \in Tasks : taskPhase[d] = "done"
    /\ poolPc' = "closed"
    /\ UNCHANGED <<batchVars, consVars, mergeVars, vocabVars, storeVars, pipeVars, exitVars,
                   ipVars, max_workers, cpu_count, taskPhase, firstThread, taskThread>>

PoolStep ==
    \/ \E n \in 0..MaxRequested, c \in 0..MaxCpu : MakeConfig(n, c)
    \/ OpenPool
    \/ \E d \in Tasks : TakeTask(d)
    \/ \E d \in Tasks, failed \in BOOLEAN : FirstReturns(d, failed)
    \/ \E d \in Tasks : SecondReturns(d)
    \/ ClosePool

----------------------------------------------------------------------------
(* Specifications *)

BatchStep ==
    \/ \E d \in Docs, h \in Hashes : ModifyFile(d, h)
    \/ \E f \in BOOLEAN : Construct(f)
    \/ Interrupt
    \/ Exit
    \/ DeleteManifest
    \/ RunStep

\* runs that nobody interrupts, over source files that nobody edits
UninterruptedStep ==
    \/ \E f \in BOOLEAN : Construct(f)
    \/ Exit
    \/ RunStep

Init ==
    /\ BatchInit /\ ConsInit /\ MergeInit /\ VocabInit /\ StoreInit /\ PipeInit
    /\ ExitInit /\ IpInit /\ PoolInit

Next ==
    \/ BatchStep \/ ConsStep \/ MergeStep \/ VocabStep \/ StoreStep \/ PipeStep
    \/ ExitStep \/ IpStep \/ PoolStep

Spec == Init /\ [][Next]_vars

\* the batch orchestrator alone
BatchSpec == Init /\ [][BatchStep]_vars

\* the batch orchestrator when no run is interrupted; the threads of the pool
\* and the consumer of process() keep running
FairBatchSpec ==
    /\ Init
    /\ [][UninterruptedStep]_vars
    /\ WF_vars(RunStep)

\* the consolidator alone
ConsSpec == Init /\ [][ConsStep]_vars

\* merge_duplicates alone
MergeSpec == Init /\ [][MergeStep]_vars

\* consolidate_vocabularies alone, between changes of its inputs
VocabSpec == Init /\ [][VocabStep]_vars

\* the operations of CorporaManifest alone
StoreSpec == Init /\ [][StoreStep]_vars

\* calls of _process_single_document alone
PipeSpec == Init /\ [][PipeStep]_vars

\* calls of get_exit_code alone
ExitSpec == Init /\ [][ExitStep]_vars

\* calls of flag_terms alone
IpSpec == Init /\ [][IpStep]_vars

\* the worker pool of process() alone
PoolSpec == Init /\ [][PoolStep]_vars

----------------------------------------------------------------------------
(* Properties of the batch orchestrator *)

InRun == pc \in {"scan", "pool", "done"}
Entries(m) == {d \in Docs : m[d] # NoEntry}
YieldedWith(st) == {d \in Docs : yields[d] > 0 /\ result[d].status = st}

\* C1: whenever process() has yielded a SUCCESS result for a document, 0-term
\* documents included, the manifest in memory holds the document's entry and
\* the manifest file has been written with it; when process() has returned, the
\* file holds the entries it held at load plus exactly the SUCCESS documents.
C1_SuccessIsRecorded ==
    /\ \A d \in Docs :
        (InRun /\ phase[d] = "yielded" /\ result[d].status = "SUCCESS") =>
            /\ manifest[d] = fileHash[d]
            /\ diskState # "absent"
            /\ (diskState = "complete" => diskDocs[d] = fileHash[d])
    /\ (pc = "done" /\ diskState = "complete") =>
            Entries(diskDocs) = Entries(loaded) \cup YieldedWith("SUCCESS")

C3_EveryDocumentOneResult ==
    /\ [](/\ \A d \in Docs : yields[d] <= 1
          /\ pc # "aborted"
          /\ pc = "done" =>
                \A d \in Docs :
                    /\ yields[d] = 1
                    /\ result[d].status \in {"SUCCESS", "FAILED", "SKIPPED"})
    /\ ((pc \in {"scan", "pool"}) ~> (pc = "done"))

C3_Witness ==
    /\ pc = "done"
    /\ \E d1, d2 \in Docs :
        /\ future[d1].status = "RAISED"
        /\ result[d1].status = "FAILED"
        /\ yields[d1] = 1
        /\ attempts[d2] = <<Failed("e1"), SuccessVocab>>
        /\ result[d2].status = "SUCCESS"
        /\ yields[d2] = 1

\* C4: at most one document is inside an update_entry + save cycle, and while
\* a document is inside its cycle no step of another thread changes the
\* manifest in memory or the manifest file.
C4_CyclesNeverOverlap ==
    /\ [](Cardinality({d \in Docs : phase[d] \in CyclePhases}) <= 1)
    /\ [][\A d \in Docs :
            (phase[d] \in CyclePhases /\ phase'[d] = phase[d]) =>
                (manifest' = manifest /\ diskState' = diskState /\ diskDocs' = diskDocs)]_vars

C4_Witness ==
    \E d1, d2 \in Docs :
        /\ d1 # d2
        /\ phase[d1] = "saving"
        /\ phase[d2] = "finished"
        /\ ShouldUpdate(future[d2])

\* the files are as they were when the loaded entries were recorded
FilesUnchanged == \A d \in Entries(loaded) : loaded[d] = fileHash[d]

Processed(d) == attempts[d] # <<>> \/ future[d] # NoResult

\* C5: a run without force_reprocess that loads a manifest with entries for k
\* documents whose files are unchanged yields those k as SKIPPED without
\* running their pipeline, and runs the pipeline for exactly the others.
C5_ResumeSkipsRecorded ==
    (InRun /\ ~force /\ FilesUnchanged) =>
        /\ \A d \in Docs :
            /\ Processed(d) => d \notin Entries(loaded)
            /\ d \in toProcess => d \notin Entries(loaded)
            /\ (d < scanPos /\ d \in Entries(loaded)) =>
                  (phase[d] = "skipped" /\ result[d] = Skipped /\ yields[d] = 1)
            /\ (d < scanPos /\ d \notin Entries(loaded)) => d \in toProcess
        /\ pc = "done" =>
            \A d \in Docs \ Entries(loaded) : Processed(d) /\ phase[d] = "yielded"

C5_Witness ==
    /\ pc = "done"
    /\ ~force
    /\ interruption = "outside_save"
    /\ FilesUnchanged
    /\ \E d1, d2 \in Docs :
        /\ d1 \in Entries(loaded)
        /\ phase[d1] = "skipped"
        /\ d2 \notin Entries(loaded)
        /\ phase[d2] = "yielded"
        /\ Processed(d2)

\* C6: a document is SKIPPED exactly when force_reprocess is off and the
\* manifest holds an entry for it with the hash the file has now; a SKIPPED
\* document is never submitted and its entry stays as loaded; with
\* force_reprocess no document is SKIPPED.
C6_SkippedIffUnchanged ==
    InRun =>
        \A d \in Docs :
            /\ (d < scanPos) =>
                  (phase[d] = "skipped" <=>
                      (~force /\ loaded[d] # NoEntry /\ loaded[d] = fileHash[d]))
            /\ (d >= scanPos) => phase[d] # "skipped"
            /\ phase[d] = "skipped" =>
                  /\ result[d] = Skipped
                  /\ yields[d] = 1
                  /\ d \notin toProcess
                  /\ ~Processed(d)
                  /\ manifest[d] = loaded[d]
            /\ force => phase[d] # "skipped"

C6_Witness ==
    /\ pc = "done"
    /\ ~force
    /\ \E d1, d2 \in Docs :
        /\ phase[d1] = "skipped"
        /\ loaded[d2] # NoEntry
        /\ loaded[d2] # fileHash[d2]
        /\ phase[d2] = "yielded"

NothingProcessed ==
    /\ toProcess = {}
    /\ \A d \in Docs :
        phase[d] = "none" /\ attempts[d] = <<>> /\ future[d] = NoResult /\ yields[d] = 0

\* C17: load returns an empty manifest exactly when there is no manifest file
\* and the content of the file when it parses; when the file does not parse,
\* construction fails, no document is processed and the file stays as it was.
C17_CorruptManifestFails ==
    /\ pc = "scan" =>
        /\ diskState \in {"absent", "complete"}
        /\ loaded = EmptyManifest <=> diskState = "absent"
        /\ diskState = "complete" => loaded = diskDocs
    /\ pc = "loadfail" =>
        /\ diskState = "truncated"
        /\ NothingProcessed
        /\ manifest = EmptyManifest

C17_Witness ==
    /\ pc = "loadfail"
    /\ diskState = "truncated"
    /\ interruption = "in_save"
    /\ durable # {}

----------------------------------------------------------------------------
(* Properties of backup_and_write *)

InCall == cpc \notin {"idle"}

\* C8: at every step of backup_and_write a reader of master_path finds the
\* complete content of before the call or the complete new content.
C8_ReaderSeesOldOrNew ==
    /\ files["master"] # Partial
    /\ InCall => files["master"] \in {before, content}

C8_Witness ==
    /\ cpc = "write_tmp"
    /\ files[TempPath] = Partial
    /\ before \in Contents
    /\ content # before
    /\ files["master"] = before

\* C9: when the second or a later successful consolidation returns,
\* <master>.bak exists and holds the content master_path had before this write.
C9_LatestBackupIsPrevious ==
    (cpc = "done" /\ successes >= 2) =>
        /\ before \in Contents
        /\ files[LatestBackup] = before

C9_Witness ==
    /\ cpc = "done"
    /\ successes = 2
    /\ files["master"] # before
    /\ files[LatestBackup] = before

\* C10: when a write step fails, master_path holds what it held before the call.
C10_FailureLeavesMaster ==
    cpc = "error" => files["master"] = before

C10_Witness ==
    /\ cpc = "error"
    /\ before \in Contents
    /\ files[TempPath] = content
    /\ content # before
    /\ files["master"] = before

----------------------------------------------------------------------------
(* Properties of merge_duplicates *)

\* the lists that hold the entries of es in another order
Reorderings(es) ==
    {[i \in 1..Len(es) |-> es[q[i]]] : q \in Permutations(1..Len(es))}

Confidences(es) == {es[i].confidence : i \in 1..Len(es)}
MinConfidence(es) == CHOOSE c \in Confidences(es) : \A o \in Confidences(es) : c <= o
MaxConfidence(es) == CHOOSE c \in Confidences(es) : \A o \in Confidences(es) : c >= o
\* exactly one entry of es has the highest confidence
SingleTop(es) ==
    Cardinality({i \in 1..Len(es) : es[i].confidence = MaxConfidence(es)}) = 1
BaseFields(e) == <<e.canonical, e.id, e.text, e.rest>>

\* C15 as claimed: merge_duplicates returns the same entry, in every field,
\* for every reordering of its list.
C15_OrderIndependent ==
    merged # NoMerge =>
        \A other \in Reorderings(mergeEntries) : MergeDuplicates(other) = merged

\* C15 as amended: for every reordering of the list the merged tags are the
\* same, and id, text and the other fields taken from the base entry are the
\* same whenever a single entry has the highest confidence.
C15_TagsAndSingleBase ==
    merged # NoMerge =>
        \A other \in Reorderings(mergeEntries) :
            /\ Len(mergeEntries) > 1 => MergeDuplicates(other).tags = merged.tags
            /\ SingleTop(mergeEntries) =>
                  BaseFields(MergeDuplicates(other)) = BaseFields(merged)

C15_Witness ==
    /\ merged # NoMerge
    /\ Len(mergeEntries) = 3
    /\ SingleTop(mergeEntries)
    /\ mergeEntries[1].confidence < mergeEntries[3].confidence
    /\ mergeEntries[1].tags # <<>>
    /\ mergeEntries[3].tags # mergeEntries[1].tags
    /\ merged.id = mergeEntries[3].id
    /\ \E other \in Reorderings(mergeEntries) : MergeDuplicates(other) # merged

\* C16 as claimed: the merged confidence lies between the least and the
\* greatest confidence of the list.
C16_ConfidenceWithinInputs ==
    merged # NoMerge =>
        /\ MinConfidence(mergeEntries) <= merged.confidence
        /\ merged.confidence <= MaxConfidence(mergeEntries)

\* C16 as amended: it does so when the list has one entry or every confidence
\* of the list is a whole number of hundredths.
C16_WithinInputsOnHundredths ==
    (/\ merged # NoMerge
     /\ \/ Len(mergeEntries) = 1
        \/ \A c \in Confidences(mergeEntries) : c % 10 = 0) =>
        /\ MinConfidence(mergeEntries) <= merged.confidence
        /\ merged.confidence <= MaxConfidence(mergeEntries)

C16_Witness ==
    /\ merged # NoMerge
    /\ Len(mergeEntries) = 3
    /\ \A c \in Confidences(mergeEntries) : c % 10 = 0
    /\ MinConfidence(mergeEntries) < merged.confidence
    /\ merged.confidence < MaxConfidence(mergeEntries)
    /\ merged.confidence * 3 # TotalConfidence(mergeEntries)

----------------------------------------------------------------------------
(* Properties of consolidate_vocabularies *)

Returned == summary # NoSummary
InputCanonicals == Canonicals(AllEntries(vocab_files))
\* the entries of the master as a reader of the file parses them
Written == ExistingEntries(master)
EntryFields ==
    {"canonical", "id", "text", "rest", "source", "confidence", "tags", "axes", "ip_flag"}
DiffersIn(old, new) == {f \in EntryFields : old[f] # new[f]}

\* C11: added is the input canonicals absent from the existing master,
\* removed the existing master's canonicals in no input file, and updated the
\* canonicals in both whose merged entry differs from the existing one in a
\* field other than ip_flag.
C11_ChangeSets ==
    Returned =>
        /\ summary.added = InputCanonicals \ DOMAIN existing_entries
        /\ summary.removed = DOMAIN existing_entries \ InputCanonicals
        /\ summary.updated =
              {c \in InputCanonicals \cap DOMAIN existing_entries :
                  DiffersIn(existing_entries[c], Written[c]) \ {"ip_flag"} # {}}

C11_Witness ==
    /\ Returned
    /\ summary.updated = {"a"}
    /\ "b" \in DOMAIN existing_entries \cap InputCanonicals
    /\ DiffersIn(existing_entries["b"], Written["b"]) = {"ip_flag"}
    /\ DiffersIn(existing_entries["a"], Written["a"]) # {}

\* C12 as claimed: added, updated, removed and flagged are pairwise disjoint.
C12_FourDisjointSets ==
    Returned =>
        /\ summary.added \cap summary.updated = {}
        /\ summary.added \cap summary.removed = {}
        /\ summary.updated \cap summary.removed = {}
        /\ summary.flagged \cap summary.added = {}
        /\ summary.flagged \cap summary.updated = {}
        /\ summary.flagged \cap summary.removed = {}

\* C12 as amended: added, updated and removed are pairwise disjoint and
\* flagged is disjoint from removed; flagged lies inside the canonicals of the
\* written master, where it meets added and updated.
C12_ChangeSetsDisjoint ==
    Returned =>
        /\ summary.added \cap summary.updated = {}
        /\ summary.added \cap summary.removed = {}
        /\ summary.updated \cap summary.removed = {}
        /\ summary.flagged \cap summary.removed = {}
        /\ summary.flagged \subseteq summary.added \cup (DOMAIN existing_entries \cap InputCanonicals)

C12_Witness ==
    /\ Returned
    /\ summary.removed # {}
    /\ summary.flagged \cap summary.updated # {}

C14_MasterSortedUnique ==
    Returned =>
        /\ master.exists
        /\ Canonicals(master.entries) = InputCanonicals
        /\ Len(master.entries) = Cardinality(InputCanonicals)
        /\ \A i, j \in 1..Len(master.entries) :
              i < j => StrLess(master.entries[i].canonical, master.entries[j].canonical)

C14_Witness ==
    /\ Returned
    /\ Len(vocab_files) = 2
    /\ Keys(AllEntries(vocab_files)) = <<"b", "a">>
    /\ Len(Bucket(AllEntries(vocab_files), "a")) = 2
    /\ vocab_files[1] # <<>>
    /\ vocab_files[2] # <<>>
    /\ Len(master.entries) = 2
    /\ master.entries[1].canonical = "a"

----------------------------------------------------------------------------
(* Properties of CorporaManifest *)

Asked == answer # NoAnswer

\* C18: needs_processing returns true exactly when the path has no entry or
\* the hash of the file differs from the stored one, that is, when the bytes
\* of the file are not those it had at its last update_entry; the call leaves
\* the documents as they are.
C18_NeedsProcessingIff ==
    /\ [](Asked =>
            LET k == Str(answer.path) IN
            /\ answer.value <=>
                  (\/ ~HasKey(documents, k)
                   \/ ComputeFileHash(sourceFiles[k]) # EntryOf(documents, k).source_hash)
            /\ ~answer.value <=> (recorded[k] # Absent /\ sourceFiles[k] = recorded[k]))
    /\ [][Asked' => documents' = documents]_vars

C18_Witness ==
    /\ Asked
    /\ answer.value
    /\ answer.path = "./A.pdf"
    /\ HasKey(documents, "A.pdf")
    /\ recorded["A.pdf"] = "c1"
    /\ sourceFiles["A.pdf"] = "c2"
    /\ Len(documents) = 3

Listed == orphans # NoOrphans
OrphanEntries == {i \in 1..Len(documents) : documents[i].key \notin {Str(p) : p \in orphans.sources}}

\* C19: get_orphaned_vocabs returns the vocab_path of each entry whose key is
\* not the string form of a current source, once per such entry, and nothing
\* else; the call leaves the documents as they are.
C19_OrphansExactly ==
    /\ [](Listed =>
            /\ Len(orphans.paths) = Cardinality(OrphanEntries)
            /\ \A vp \in VocabPaths :
                  Cardinality({j \in 1..Len(orphans.paths) : orphans.paths[j] = vp})
                    = Cardinality({i \in OrphanEntries : documents[i].vocab_path = vp})
            /\ \A j \in 1..Len(orphans.paths) : orphans.paths[j] \in VocabPaths)
    /\ [][Listed' => documents' = documents]_vars

C19_Witness ==
    /\ Listed
    /\ Len(documents) = 3
    /\ orphans.sources = {"./A.pdf"}
    /\ orphans.paths = <<"B.vocab.json", "A.vocab.json">>

----------------------------------------------------------------------------
(* Properties of _process_single_document *)

\* C20: a classify_term that raises drops only its term: every candidate is
\* still visited, the call returns SUCCESS unless another statement raised,
\* with term_count the number of terms classified without error; a document
\* without text or without candidates returns SUCCESS with term_count 0.
C20_TermErrorsDropOnlyTheTerm ==
    /\ Len(classified_terms) + Cardinality(failedTerms) = termPos - 1
    /\ \A i \in 1..(termPos - 1) :
          i \in failedTerms <=> ~(\E j \in 1..Len(classified_terms) : classified_terms[j] = i)
    /\ stage = "returned" =>
        /\ docResult.status = "FAILED" <=> raisedIn # "none"
        /\ docResult.status \in {"SUCCESS", "FAILED"}
        /\ raisedIn # "classify"
        /\ (docResult.status = "SUCCESS" /\ docResult.vocab) =>
              /\ termPos = candidates + 1
              /\ docResult.term_count = candidates - Cardinality(failedTerms)
        /\ (raisedIn = "none" /\ (~full_text \/ candidates = 0)) =>
              docResult = PipeResult("SUCCESS", 0, FALSE, "")

C20_Witness ==
    /\ stage = "returned"
    /\ candidates = 3
    /\ failedTerms = {2}
    /\ classified_terms = <<1, 3>>
    /\ docResult = PipeResult("SUCCESS", 2, TRUE, "")

----------------------------------------------------------------------------
(* Properties of BatchSummary.get_exit_code *)

\* C21: get_exit_code returns 66 when total_documents is 0, otherwise 0 when
\* failed is 0 (also when every document was skipped), otherwise 75, whether
\* or not any document was processed successfully.
C21_ExitCode ==
    exit_code # <<>> =>
        exit_code[1] = IF batch_summary.total_documents = 0 THEN 66
                       ELSE IF batch_summary.failed = 0 THEN 0
                       ELSE 75

\* every document failed, and the call returned
C21_Witness ==
    /\ exit_code = <<75>>
    /\ batch_summary.total_documents = MaxCount
    /\ batch_summary.failed = MaxCount
    /\ batch_summary.processed = 0

----------------------------------------------------------------------------
(* Properties of detect_ip and flag_terms *)

\* the franchise the blocklist matches the term under, or None
MatchOf(term) ==
    IF ipBlocklist.given THEN Check(ipBlocklist, term.text, term.canonical) ELSE None

\* the flag the two reasons make, blocklist detail first
ExpectedFlag(term) ==
    LET franchise == MatchOf(term)
        classification == <<"classification:">> \o term.ip_flag
    IN  IF franchise = None THEN classification
        ELSE IF ~HasFlag(term.ip_flag) THEN <<"blocklist:", franchise>>
        ELSE <<"blocklist:", franchise, ";">> \o classification

\* C22: detect_ip returns None when the blocklist does not match and the term
\* has no prior flag; otherwise it returns a flag, which starts with
\* blocklist:<franchise> when the blocklist matches, and which for a prior flag
\* without the prefix blocklist: is the blocklist detail (if any), then ";",
\* then classification:<reason>.
C22_DetectIp ==
    \A i \in 1..Len(ip_results) :
        LET term == ipTerms[i]
            franchise == MatchOf(term)
        IN  IF franchise = None /\ ~HasFlag(term.ip_flag)
            THEN ip_results[i] = NoneFlag
            ELSE /\ HasFlag(ip_results[i])
                 /\ franchise # None =>
                        SubSeq(ip_results[i], 1, 2) = <<"blocklist:", franchise>>
                 /\ ~StartsWithBlocklist(term.ip_flag) =>
                        ip_results[i] = ExpectedFlag(term)

\* detect_ip has run on a term with a match and a free-text reason, and on a
\* term with neither
C22_Witness ==
    /\ Len(ip_results) = 2
    /\ ip_results[1] = <<"blocklist:", "dnd", ";", "classification:", "ip-suspect">>
    /\ ip_results[2] = NoneFlag
    /\ ipTerms[2].ip_flag = <<>>

\* the ip_flag values of a list of terms
FlagsOf(terms) == [i \in 1..Len(terms) |-> terms[i].ip_flag]

\* C30: flag_terms applied to its own output gives the same ip_flag values as
\* one application, and no call changes the terms of its input list.
C30_FlagTermsIdempotent ==
    /\ [](reflagged_terms.called =>
            FlagsOf(reflagged_terms.terms) = FlagsOf(flagged_terms.terms))
    /\ [][/\ flagged_terms'.called => ipTerms' = ipTerms
          /\ (flagged_terms.called /\ flagged_terms'.called) =>
                 flagged_terms'.terms = flagged_terms.terms]_vars

----------------------------------------------------------------------------
(* Properties of merge_duplicates: the base entry *)

\* the first entry of es, in list order, that has the highest confidence
FirstTop(es) ==
    es[CHOOSE i \in 1..Len(es) :
          /\ es[i].confidence = MaxConfidence(es)
          /\ \A j \in 1..(i - 1) : es[j].confidence < MaxConfidence(es)]

\* C23: for two or more entries, merge_duplicates takes id, text and the other
\* base fields (pos, category, mood, energy, intent, secondary_intents) from
\* the entry of highest confidence, and from the first such entry of the list
\* when several tie.
C23_BaseIsFirstHighest ==
    (merged # NoMerge /\ Len(mergeEntries) >= 2) =>
        BaseFields(merged) = BaseFields(FirstTop(mergeEntries))

\* two entries with different ids tie for the highest confidence, behind an
\* entry of lower confidence, and the merge took the earlier of the two
C23_Witness ==
    /\ merged # NoMerge
    /\ Len(mergeEntries) = 3
    /\ mergeEntries[1].confidence < mergeEntries[2].confidence
    /\ mergeEntries[2].confidence = mergeEntries[3].confidence
    /\ mergeEntries[2].id # mergeEntries[3].id
    /\ merged.id = mergeEntries[2].id
    /\ merged.rest = mergeEntries[2].rest

----------------------------------------------------------------------------
(* Properties of merge_duplicates: the axis scores *)

\* the list is one entry of confidence 0 and one of confidence 1, either order
ZeroAndOne(es) ==
    /\ Len(es) = 2
    /\ {es[1].confidence, es[2].confidence} = {0, 1000}

\* the entry of confidence 1 of such a list
Confident(es) == IF es[1].confidence = 1000 THEN es[1] ELSE es[2]

\* a score in thousandths rounded to two decimals
ToHundredths(v) == CHOOSE r \in {10 * k : k \in 0..100} : r - 5 <= v /\ v < r + 5

AllAxes == {AXIS_NAMES[k] : k \in 1..Len(AXIS_NAMES)}

\* C25 as claimed: merging an entry of confidence 0 with one of confidence 1
\* gives, on each of the 16 axes, the score of the confidence-1 entry, and
\* inputs of total confidence 0 give 0 on every axis.
C25_AxesOfTheConfidentEntry ==
    merged # NoMerge =>
        /\ ZeroAndOne(mergeEntries) =>
               \A axis \in AllAxes :
                   AxisOf(merged, axis) = AxisOf(Confident(mergeEntries), axis)
        /\ (Len(mergeEntries) >= 2 /\ TotalConfidence(mergeEntries) = 0) =>
               \A axis \in AllAxes : AxisOf(merged, axis) = 0

\* C25 as amended: merging an entry of confidence 0 with one of confidence 1
\* gives, on each of the 16 axes, the score of the confidence-1 entry rounded
\* to two decimals, hence that score itself when it is a whole number of
\* hundredths; two or more inputs of total confidence 0 give 0 on every axis.
C25_RoundedAxesOfTheConfidentEntry ==
    merged # NoMerge =>
        /\ ZeroAndOne(mergeEntries) =>
               \A axis \in AllAxes :
                   LET score == AxisOf(Confident(mergeEntries), axis)
                   IN  /\ AxisOf(merged, axis) = ToHundredths(score)
                       /\ score % 10 = 0 => AxisOf(merged, axis) = score
        /\ (Len(mergeEntries) >= 2 /\ TotalConfidence(mergeEntries) = 0) =>
               \A axis \in AllAxes : AxisOf(merged, axis) = 0

\* an entry of confidence 0 that has scores is merged with an entry of
\* confidence 1 whose scores are whole hundredths, and they come out as they are
C25_Witness ==
    /\ merged # NoMerge
    /\ ZeroAndOne(mergeEntries)
    /\ mergeEntries[1].confidence = 0
    /\ AxisOf(mergeEntries[1], "water") = 1000
    /\ AxisOf(mergeEntries[2], "fire") = 250
    /\ merged.axes = mergeEntries[2].axes

----------------------------------------------------------------------------
(* Properties of consolidate_vocabularies: the IP flags *)

\* the entries of canonical c in the input files, in input order
InputBucket(c) == Bucket(AllEntries(vocab_files), c)

HasInputFlag(c) == \E i \in 1..Len(InputBucket(c)) : Truthy(InputBucket(c)[i].ip_flag)

\* the first non-empty ip_flag of the bucket of c
FirstInputFlag(c) ==
    LET bucket == InputBucket(c)
    IN  bucket[CHOOSE i \in 1..Len(bucket) :
                  /\ Truthy(bucket[i].ip_flag)
                  /\ \A j \in 1..(i - 1) : ~Truthy(bucket[j].ip_flag)].ip_flag

\* C24: a master entry whose bucket has an input entry with a non-empty
\* ip_flag carries the first such flag in input order, whatever the blocklist
\* says; an entry whose bucket has none carries blocklist:<franchise> when a
\* blocklist is supplied and matches its text or canonical, and no flag
\* otherwise.
C24_FlagsPropagate ==
    Returned =>
        \A c \in InputCanonicals :
            LET franchise ==
                    IF blocklist.given
                    THEN Check(blocklist, Written[c].text, Written[c].canonical)
                    ELSE None
            IN  IF HasInputFlag(c) THEN Written[c].ip_flag = FirstInputFlag(c)
                ELSE IF franchise # None
                     THEN Written[c].ip_flag = "blocklist:" \o franchise
                     ELSE ~Truthy(Written[c].ip_flag)

\* under a blocklist that matches both, an entry that came flagged keeps its
\* flag and an unflagged entry gets the blocklist flag
C24_Witness ==
    /\ Returned
    /\ blocklist.given
    /\ InputCanonicals = {"a", "b"}
    /\ Check(blocklist, Written["a"].text, Written["a"].canonical) = "dnd"
    /\ Written["a"].ip_flag = "f"
    /\ Written["b"].ip_flag = "blocklist:dnd"

----------------------------------------------------------------------------
(* Properties of consolidate_vocabularies: reads before writes *)

\* the call is reading the existing master and the vocab files
Reading == cpc \in {"load_master", "load_vocabs", "loaded"}

\* C29: consolidate_vocabularies reads the existing master and every vocab
\* file before it writes: while it reads, and when a read fails and the call
\* raises, master_path, <master>.bak, the temporary file and the timestamped
\* backups are neither created nor modified.
C29_ReadsBeforeWrites ==
    /\ [](cpc = "read_error" => files["master"] = before)
    /\ [][(Reading \/ Reading' \/ cpc' = "read_error") =>
             (files' = files /\ stamped' = stamped)]_vars

\* after two successful consolidations a third call fails to read
C29_Witness ==
    /\ cpc = "read_error"
    /\ successes = 2
    /\ files["master"] \in Contents
    /\ files[LatestBackup] \in Contents
    /\ files["master"] = before

----------------------------------------------------------------------------
(* Properties of the batch orchestrator: failed and skipped documents *)

\* process() has taken the future of d and its result is FAILED: both
\* attempts failed, or the exception of the future was caught
FailedInRun(d) ==
    /\ pc \in {"pool", "done"}
    /\ phase[d] \in {"ready", "yielded"}
    /\ result[d].status = "FAILED"

\* both calls of _process_single_document for d returned FAILED
FailedTwice(d) == FailedInRun(d) /\ Len(attempts[d]) = 2

\* no step of a run changes the manifest, in memory or on disk, for a
\* document whose result is not SUCCESS
OnlySuccessIsRecorded ==
    [][(pc = "pool" /\ pc' = "pool") =>
          /\ \A d \in Docs :
                manifest'[d] # manifest[d] => result'[d].status = "SUCCESS"
          /\ diskDocs' # diskDocs =>
                \E d \in Docs : phase[d] \in CyclePhases /\ result[d].status = "SUCCESS"]_vars

\* C27 as claimed: a FAILED or SKIPPED result never changes the manifest, and
\* a document that failed both attempts has no new entry and is one that the
\* next run, loading this manifest, selects without being forced to.
C27_FailedIsSelectedAgain ==
    /\ OnlySuccessIsRecorded
    /\ [](\A d \in Docs :
            /\ (InRun /\ phase[d] = "skipped") => manifest[d] = loaded[d]
            /\ FailedTwice(d) =>
                  /\ manifest[d] = loaded[d]
                  /\ NeedsProcessing(manifest, d))

\* C27 as amended: a FAILED or SKIPPED result never changes the manifest; a
\* document that failed both attempts keeps the entry, or the absence of one,
\* that the run loaded, so that after a run without force_reprocess the
\* manifest, in memory and in a loadable file, still says it needs processing.
C27_FailedKeepsItsEntry ==
    /\ OnlySuccessIsRecorded
    /\ [](\A d \in Docs :
            /\ (InRun /\ phase[d] = "skipped") => manifest[d] = loaded[d]
            /\ FailedInRun(d) =>
                  /\ manifest[d] = loaded[d]
                  /\ ~force => NeedsProcessing(manifest, d)
                  /\ (~force /\ diskState = "complete") => NeedsProcessing(diskDocs, d))

\* a recorded document was edited, failed both attempts of the next run and
\* was yielded as FAILED, while the other document of the run was recorded
C27_Witness ==
    \E d, e \in Docs :
        /\ ~force
        /\ FailedTwice(d)
        /\ phase[d] = "yielded"
        /\ loaded[d] = "h1"
        /\ fileHash[d] = "h2"
        /\ manifest[d] = "h1"
        /\ diskState = "complete"
        /\ diskDocs[d] = "h1"
        /\ e # d
        /\ result[e].status = "SUCCESS"
        /\ manifest[e] # loaded[e]

----------------------------------------------------------------------------
(* Properties of the batch orchestrator: the order of the results *)

\* d has been submitted to the pool in this run
Submitted(d) == phase[d] \notin {"none", "skipped"}

\* C28: in every run no document is submitted to the pool before every
\* discovered document is checked against the manifest, so that every SKIPPED
\* result is yielded before any pipeline starts and before any SUCCESS or
\* FAILED result.
C28_SkippedComeFirst ==
    /\ [](\A d \in Docs :
            Submitted(d) =>
                /\ scanPos > NDocs
                /\ \A e \in Docs :
                      Submitted(e) \/ (result[e] = Skipped /\ yields[e] = 1))
    /\ [][\A d \in Docs :
             (yields'[d] = yields[d] + 1 /\ result'[d].status = "SKIPPED") =>
                 \A e \in Docs :
                     /\ ~Submitted(e)
                     /\ attempts[e] = <<>>
                     /\ yields[e] > 0 => result[e].status = "SKIPPED"]_vars

\* one document was yielded as SKIPPED and the pipeline of the other runs
C28_Witness ==
    \E d, e \in Docs :
        /\ d > e
        /\ result[d] = Skipped
        /\ yields[d] = 1
        /\ phase[e] = "running"
        /\ attempts[e] # <<>>

----------------------------------------------------------------------------
(* Properties of the worker pool *)

\* C26: while process() runs, max_workers is within 1..16 and the number of
\* documents whose pipeline is running is at most min(max_workers, CPU count)
\* (with 4 for an unknown CPU count); each running pipeline has a thread of
\* its own, and its retry runs on the thread that ran its first attempt.
C26_BoundedPool ==
    poolPc \in {"configured", "open", "closed"} =>
        /\ max_workers \in 1..16
        /\ Cardinality(RunningTasks) <= max_workers
        /\ cpu_count # 0 => Cardinality(RunningTasks) <= cpu_count
        /\ cpu_count = 0 => Cardinality(RunningTasks) <= 4
        /\ \A d, e \in RunningTasks : taskThread[d] = taskThread[e] => d = e
        /\ \A d \in RunningTasks : taskThread[d] # 0 /\ taskThread[d] = firstThread[d]

\* sixteen workers are configured on two CPUs: two pipelines run, one of them
\* in its retry, and the third document waits
C26_Witness ==
    /\ poolPc = "open"
    /\ max_workers = 16
    /\ cpu_count = 2
    /\ Cardinality(RunningTasks) = 2
    /\ \E d \in Tasks : taskPhase[d] = "second"
    /\ \E d \in Tasks : taskPhase[d] = "queued"

====
